---- MODULE Spec2Model ----
\* Verification model of src/decoding.py: the token-search engine (greedy,
\* beam and LM-fused beam decoders), the logit filters, the ranker and
\* DecodingTask.run with its sample loop and key/value cache.
\*
\* Conventions.  Rows and positions are 1-based here (0-based in the source).
\* None is modelled by -1 for numeric options.  Log-probabilities are integers
\* in units of ln 2; NegInf stands for -inf.  A logit row gives every token a
\* distinct finite value unless a filter masked it, so arg-max and top-k are
\* decided by the values (the one tied row, MassRow, ties timestamps only).
EXTENDS Integers, Sequences, FiniteSets, TLC

\* ------------------------------------------------------------------ bounds
MaxAudio == 2
MaxBeam == 2
MaxSampleLen == 3
NumTimestamps == 3

\* --------------------------------------------------------------- tokenizer
\* The tokenizer is external; its layout is kept: text < eot < special tokens
\* < timestamp_begin <= timestamps.
blank == 0
text_a == 1
eot == 2
sot == 3
lang_en == 4
translate == 5
no_timestamps == 6
timestamp_begin == 7
VocabSize == timestamp_begin + NumTimestamps
Vocab == 0 .. (VocabSize - 1)
NegInf == -100000
None == -1
LangPenalty == 7

\* ----------------------------------------------------------------- helpers
\* the same function, with every value computed once
Eager(f) == f @@ <<>>

Last(s) == s[Len(s)]
Front(s) == SubSeq(s, 1, Len(s) - 1)
Range(s) == {s[k] : k \in 1 .. Len(s)}
Min2(a, b) == IF a < b THEN a ELSE b
Max2(a, b) == IF a > b THEN a ELSE b

RECURSIVE Pow2(_)
Pow2(n) == IF n <= 0 THEN 1 ELSE 2 * Pow2(n - 1)

RECURSIVE SumSeq(_)
SumSeq(s) == IF s = <<>> THEN 0 ELSE s[1] + SumSeq(Tail(s))

RECURSIVE Flatten(_)
Flatten(ss) == IF ss = <<>> THEN <<>> ELSE ss[1] \o Flatten(Tail(ss))

\* a + b on log-probabilities, -inf absorbing
AddLP(a, b) == IF a = NegInf \/ b = NegInf THEN NegInf ELSE a + b

\* Python's round(): half to even, on a value given in halves
RoundHalfEven(halves) ==
    IF halves % 2 = 0 THEN halves \div 2
    ELSE IF ((halves - 1) \div 2) % 2 = 0 THEN (halves - 1) \div 2
    ELSE (halves + 1) \div 2

\* ------------------------------------------------------------ model output
\* A logit row that ranks the tokens of `order` first, in that order, and the
\* remaining tokens below them by ascending id: all values distinct.
RECURSIVE RestOrder(_, _)
RestOrder(t, order) ==
    IF t >= VocabSize THEN <<>>
    ELSE IF t \in Range(order) THEN RestOrder(t + 1, order)
    ELSE <<t>> \o RestOrder(t + 1, order)

FullOrder(order) == order \o RestOrder(0, order)

RankRow(order) ==
    LET full == FullOrder(order)
    IN Eager([t \in Vocab |->
                VocabSize + 1 - (CHOOSE k \in 1 .. Len(full) : full[k] = t)])

\* One text token clearly on top of every single timestamp, all timestamps
\* tied just below it: the timestamps' total mass exceeds the text token's.
MassRow ==
    Eager([t \in Vocab |->
            IF t = text_a THEN VocabSize
            ELSE IF t >= timestamp_begin THEN VocabSize - 1
            ELSE t + 1])

LogitFamily ==
    << RankRow(<<text_a, blank, eot>>),
       RankRow(<<eot, text_a, blank>>),
       RankRow(<<blank, eot, text_a>>),
       RankRow(<<text_a, eot, timestamp_begin>>),
       RankRow(<<timestamp_begin, text_a, eot>>),
       RankRow(<<timestamp_begin + 1, timestamp_begin, text_a>>),
       RankRow(<<timestamp_begin + 2, eot, timestamp_begin + 1>>),
       RankRow(<<sot, no_timestamps, text_a>>),
       MassRow >>

\* The external network is a function of the audio and the token history: rows
\* with the same audio and history get the same logits.  `net` lists the rows
\* of LogitFamily the network can produce on the given audio; `c` is the
\* step's draw, which selects one such function.
NetLogits(c, audio, history, net) ==
    LogitFamily[net[((c + 2 * audio + SumSeq(history)) % Len(net)) + 1]]

\* ------------------------------------------------------------ tensor maths
Unmasked(row) == {t \in Vocab : row[t] # NegInf}

RowMax(row) ==
    IF Unmasked(row) = {} THEN NegInf
    ELSE CHOOSE m \in {row[t] : t \in Unmasked(row)} :
            \A t \in Unmasked(row) : row[t] <= m

RECURSIVE FloorLog2(_)
FloorLog2(n) == IF n <= 1 THEN 0 ELSE 1 + FloorLog2(n \div 2)

RECURSIVE MassOf(_, _)
MassOf(row, t) ==
    IF t >= VocabSize THEN 0
    ELSE (IF row[t] = NegInf THEN 0 ELSE Pow2(row[t])) + MassOf(row, t + 1)

\* logsumexp in units of ln 2, kept to its integer part
LogSumExp(row) ==
    IF Unmasked(row) = {} THEN NegInf ELSE FloorLog2(MassOf(row, 0))

\* F.log_softmax(logits.float(), dim=-1)
LogSoftmax(row) ==
    LET lse == LogSumExp(row)
    IN Eager([t \in Vocab |-> IF row[t] = NegInf THEN NegInf ELSE row[t] - lse])

\* logits.argmax(dim=-1): the first index holding the maximum
ArgMax(row) ==
    CHOOSE t \in Vocab :
        /\ \A u \in Vocab : row[u] <= row[t]
        /\ \A u \in Vocab : u < t => row[u] < row[t]

\* row.topk(k): the k largest values with their indices, largest first;
\* equal values in index order
RECURSIVE TopK(_, _, _)
TopK(row, k, taken) ==
    IF k = 0 \/ taken = Vocab THEN <<>>
    ELSE LET rest == Vocab \ taken
             best == CHOOSE t \in rest :
                        /\ \A u \in rest : row[u] <= row[t]
                        /\ \A u \in rest : u < t => row[u] < row[t]
         IN <<best>> \o TopK(row, k - 1, taken \cup {best})

\* Categorical(logits / temperature).sample(): a token of non-zero
\* probability; `draw` picks which one
RECURSIVE SetToSeq(_, _)
SetToSeq(S, t) ==
    IF t >= VocabSize THEN <<>>
    ELSE IF t \in S THEN <<t>> \o SetToSeq(S, t + 1)
    ELSE SetToSeq(S, t + 1)

Sample(row, draw) ==
    LET support == SetToSeq(Unmasked(row), 0)
    IN IF support = <<>> THEN 0 ELSE support[(draw % Len(support)) + 1]

\* ------------------------------------------------------------ logit filters
MaskSet(row, S) == Eager([t \in Vocab |-> IF t \in S THEN NegInf ELSE row[t]])

\* SuppressBlank.apply, one row; seqlen = tokens.shape[1]
\* a filter that masks the space token alone
SuppressBlankRowBlankOnly(row, seqlen, sample_begin) ==
    IF seqlen = sample_begin THEN MaskSet(row, {blank}) ELSE row

SuppressBlankRow(row, seqlen, sample_begin) ==
    IF seqlen = sample_begin THEN MaskSet(row, {blank, eot}) ELSE row

\* DecodingTask._get_suppress_tokens: the structural tokens are always added
\* (the tokenizer of the model has no sot_prev, sot_lm, transcribe, no_speech
\* and no non-speech symbols of its own)
SuppressList == {translate, sot}

\* options.suppress_tokens: None, or a list of ids in which -1 stands for the
\* non-speech symbols; a string is split into such a list
SuppressDefault == [none |-> FALSE, list |-> <<-1>>]
SuppressNone == [none |-> TRUE, list |-> <<>>]
SuppressGiven(list) == [none |-> FALSE, list |-> list]

\* DecodingTask._get_suppress_tokens
GetSuppressTokens(o) ==
    LET given == {o.suppress_tokens.list[k] : k \in 1 .. Len(o.suppress_tokens.list)}
    IN IF -1 \in given THEN {t \in given : t >= 0} \cup SuppressList
       ELSE IF o.suppress_tokens.none \/ o.suppress_tokens.list = <<>>
            THEN SuppressList
       ELSE given \cup SuppressList

\* if self.options.suppress_tokens: the list is truthy
SuppressInstalled(o) == ~o.suppress_tokens.none /\ o.suppress_tokens.list # <<>>

\* SuppressTokens.apply, one row
SuppressTokensRow(row, suppress_tokens) == MaskSet(row, suppress_tokens)

IsTimestamp(t) == t >= timestamp_begin

\* sampled_tokens[sampled_tokens.ge(timestamp_begin)]
Timestamps(seq) == SelectSeq(seq, IsTimestamp)

\* the rule below without the masking of timestamps after a timestamp pair
TimestampPairRowUnpaired(row, sampled) ==
    LET n == Len(sampled)
        last_was_timestamp == n >= 1 /\ IsTimestamp(sampled[n])
        penultimate_was_timestamp == n < 2 \/ IsTimestamp(sampled[n - 1])
        r1 == MaskSet(row, {no_timestamps})
        r2 == IF last_was_timestamp /\ ~penultimate_was_timestamp
              THEN MaskSet(r1, {t \in Vocab : t < eot})
              ELSE r1
        ts == Timestamps(sampled)
        timestamp_last ==
              IF ts = <<>> THEN timestamp_begin
              ELSE IF last_was_timestamp /\ ~penultimate_was_timestamp
                   THEN Last(ts)
                   ELSE Last(ts) + 1
    IN MaskSet(r2, {t \in Vocab : timestamp_begin <= t /\ t < timestamp_last})

\* the rule below with timestamps masked below the last one only, never below
\* its successor
TimestampPairRowRepeating(row, sampled) ==
    LET n == Len(sampled)
        last_was_timestamp == n >= 1 /\ IsTimestamp(sampled[n])
        penultimate_was_timestamp == n < 2 \/ IsTimestamp(sampled[n - 1])
        r1 == MaskSet(row, {no_timestamps})
        r2 == IF last_was_timestamp
              THEN IF penultimate_was_timestamp
                   THEN MaskSet(r1, {t \in Vocab : t >= timestamp_begin})
                   ELSE MaskSet(r1, {t \in Vocab : t < eot})
              ELSE r1
        ts == Timestamps(sampled)
        timestamp_last == IF ts = <<>> THEN timestamp_begin ELSE Last(ts)
    IN MaskSet(r2, {t \in Vocab : timestamp_begin <= t /\ t < timestamp_last})

\* a pairing rule that masks the text tokens after every timestamp
PairingMaskTextOnly(sampled) ==
    LET n == Len(sampled)
        last_was_timestamp == n >= 1 /\ IsTimestamp(sampled[n])
    IN IF last_was_timestamp THEN {t \in Vocab : t < eot} ELSE {}

\* the columns the pairing rule of ApplyTimestampRules.apply masks:
\* logits[k, timestamp_begin:] or logits[k, :eot]
PairingMask(sampled) ==
    LET n == Len(sampled)
        last_was_timestamp == n >= 1 /\ IsTimestamp(sampled[n])
        penultimate_was_timestamp == n < 2 \/ IsTimestamp(sampled[n - 1])
    IN IF last_was_timestamp
       THEN IF penultimate_was_timestamp
            THEN {t \in Vocab : t >= timestamp_begin}
            ELSE {t \in Vocab : t < eot}
       ELSE {}

\* ApplyTimestampRules.apply up to the initial-position rule, one row
TimestampPairRow(row, sampled) ==
    LET n == Len(sampled)
        last_was_timestamp == n >= 1 /\ IsTimestamp(sampled[n])
        penultimate_was_timestamp == n < 2 \/ IsTimestamp(sampled[n - 1])
        r1 == MaskSet(row, {no_timestamps})
        r2 == MaskSet(r1, PairingMask(sampled))
        ts == Timestamps(sampled)
        timestamp_last ==
              IF ts = <<>> THEN timestamp_begin
              ELSE IF last_was_timestamp /\ ~penultimate_was_timestamp
                   THEN Last(ts)
                   ELSE Last(ts) + 1
    IN MaskSet(r2, {t \in Vocab : timestamp_begin <= t /\ t < timestamp_last})

\* the initial-position rule of ApplyTimestampRules.apply
TimestampInitialRow(row, seqlen, sample_begin, max_initial_timestamp_index) ==
    IF seqlen = sample_begin
    THEN LET r1 == MaskSet(row, {t \in Vocab : t < timestamp_begin})
         IN IF max_initial_timestamp_index # None
            THEN MaskSet(r1, {t \in Vocab :
                        t > timestamp_begin + max_initial_timestamp_index})
            ELSE r1
    ELSE row

\* the probability-mass rule: logsumexp over the timestamps against the best
\* text token; both sides share the row's normaliser, so 2^logit is compared
TimestampMassRow(row) ==
    LET text == {t \in Unmasked(row) : t < timestamp_begin}
        max_text == IF text = {} THEN 0
                    ELSE Pow2(RowMax(MaskSet(row, {t \in Vocab : t >= timestamp_begin})))
    IN IF MassOf(row, timestamp_begin) > max_text
       THEN MaskSet(row, {t \in Vocab : t < timestamp_begin})
       ELSE row

ApplyTimestampRulesRow(row, tokrow, sample_begin, max_initial_timestamp_index) ==
    TimestampMassRow(
        TimestampInitialRow(
            TimestampPairRow(row, SubSeq(tokrow, sample_begin + 1, Len(tokrow))),
            Len(tokrow), sample_begin, max_initial_timestamp_index))

\* ------------------------------------------------------------------ ranker
\* MaximumLikelihoodRanker.rank.scores for one candidate, as a fraction
\* num / den with den > 0: logprob / length, or logprob / ((5 + length) / 6)
\* when length_penalty = 1, or logprob when length_penalty = 0.
\* length_penalty is None, 0 or 1 here.
ScoreNum(logprob, length, length_penalty) ==
    IF length_penalty = None THEN logprob
    ELSE IF length_penalty = 0 THEN logprob
    ELSE 6 * logprob

\* a penalty that ignores the length
ScoreDenUnit(length, length_penalty) == 1

ScoreDen(length, length_penalty) ==
    IF length_penalty = None THEN length
    ELSE IF length_penalty = 0 THEN 1
    ELSE 5 + length

\* score of candidate a > score of candidate b (denominators positive);
\* -inf / penalty = -inf
ScoreGreater(lpa, lena, lpb, lenb, length_penalty) ==
    IF lpa = NegInf THEN FALSE
    ELSE IF lpb = NegInf THEN TRUE
    ELSE ScoreNum(lpa, lena, length_penalty) * ScoreDen(lenb, length_penalty)
            > ScoreNum(lpb, lenb, length_penalty) * ScoreDen(lena, length_penalty)

\* np.argmax(scores(p, l)): a left-to-right scan that keeps the first maximum
RECURSIVE ArgMaxScan(_, _, _, _, _)
ArgMaxScan(logprobs, lengths, length_penalty, k, best) ==
    IF k > Len(logprobs) THEN best
    ELSE IF ScoreGreater(logprobs[k], lengths[k], logprobs[best], lengths[best],
                         length_penalty)
         THEN ArgMaxScan(logprobs, lengths, length_penalty, k + 1, k)
         ELSE ArgMaxScan(logprobs, lengths, length_penalty, k + 1, best)

\* rank for one audio: the selected index (1-based)
RankOne(logprobs, lengths, length_penalty) ==
    ArgMaxScan(logprobs, lengths, length_penalty, 2, 1)

\* logprob / penalty raises ZeroDivisionError when penalty = length = 0
RankRaises(lengths, length_penalty) ==
    length_penalty = None /\ \E k \in 1 .. Len(lengths) : lengths[k] = 0

\* ----------------------------------------------------------- greedy decoder
\* the update below without the test of the temperature: always sampling
GreedyUpdateAlwaysSamples(toks, lgts, sums, temperature, draw) ==
    LET n == Len(toks)
        next_tokens == Eager([r \in 1 .. n |-> Sample(lgts[r], draw + r)])
        logprobs == Eager([r \in 1 .. n |-> LogSoftmax(lgts[r])])
        clamped == [r \in 1 .. n |->
                      IF Last(toks[r]) = eot THEN eot ELSE next_tokens[r]]
        new_sums == Eager([r \in 1 .. n |->
                      IF Last(toks[r]) # eot
                      THEN AddLP(sums[r], logprobs[r][next_tokens[r]])
                      ELSE sums[r]])
        new_tokens == Eager([r \in 1 .. n |-> Append(toks[r], clamped[r])])
    IN [tokens |-> new_tokens,
        sum_logprobs |-> new_sums,
        completed |-> \A r \in 1 .. n : Last(new_tokens[r]) = eot]

\* GreedyDecoder.update; draw is used only when temperature # 0
\* an update that treats ended rows like the others
GreedyUpdateNoFreeze(toks, lgts, sums, temperature, draw) ==
    LET n == Len(toks)
        next_tokens == Eager([r \in 1 .. n |->
                          IF temperature = 0 THEN ArgMax(lgts[r])
                          ELSE Sample(lgts[r], draw + r)])
        logprobs == Eager([r \in 1 .. n |-> LogSoftmax(lgts[r])])
        clamped == [r \in 1 .. n |->
                      next_tokens[r]]
        new_sums == Eager([r \in 1 .. n |->
                      AddLP(sums[r], logprobs[r][next_tokens[r]])])
        new_tokens == Eager([r \in 1 .. n |-> Append(toks[r], clamped[r])])
    IN [tokens |-> new_tokens,
        sum_logprobs |-> new_sums,
        completed |-> \A r \in 1 .. n : Last(new_tokens[r]) = eot]

GreedyUpdate(toks, lgts, sums, temperature, draw) ==
    LET n == Len(toks)
        next_tokens == Eager([r \in 1 .. n |->
                          IF temperature = 0 THEN ArgMax(lgts[r])
                          ELSE Sample(lgts[r], draw + r)])
        logprobs == Eager([r \in 1 .. n |-> LogSoftmax(lgts[r])])
        clamped == [r \in 1 .. n |->
                      IF Last(toks[r]) = eot THEN eot ELSE next_tokens[r]]
        new_sums == Eager([r \in 1 .. n |->
                      IF Last(toks[r]) # eot
                      THEN AddLP(sums[r], logprobs[r][next_tokens[r]])
                      ELSE sums[r]])
        new_tokens == Eager([r \in 1 .. n |-> Append(toks[r], clamped[r])])
    IN [tokens |-> new_tokens,
        sum_logprobs |-> new_sums,
        completed |-> \A r \in 1 .. n : Last(new_tokens[r]) = eot]

\* a finalize that pads the rows that do not end in eot
GreedyFinalizeOnlyLacking(toks, sums, n_audio, n_group) ==
    [a \in 1 .. n_audio |->
        [g \in 1 .. n_group |->
            [seq |-> IF Last(toks[(a - 1) * n_group + g]) = eot
                     THEN toks[(a - 1) * n_group + g]
                     ELSE Append(toks[(a - 1) * n_group + g], eot),
             score |-> sums[(a - 1) * n_group + g]]]]

\* a finalize that returns the rows as they are
GreedyFinalizeNoPad(toks, sums, n_audio, n_group) ==
    [a \in 1 .. n_audio |->
        [g \in 1 .. n_group |->
            [seq |-> toks[(a - 1) * n_group + g],
             score |-> sums[(a - 1) * n_group + g]]]]

\* GreedyDecoder.finalize on the (n_audio, n_group) reshaped tensors: F.pad
\* appends one eot to every row
GreedyFinalize(toks, sums, n_audio, n_group) ==
    [a \in 1 .. n_audio |->
        [g \in 1 .. n_group |->
            [seq |-> Append(toks[(a - 1) * n_group + g], eot),
             score |-> sums[(a - 1) * n_group + g]]]]

\* ------------------------------------------------------------- beam decoder
\* BeamSearchDecoder.__init__: round(beam_size * (patience or 1.0)), patience
\* given in halves (patience2 = 2 * patience, None when unset)
MaxCandidates(beam_size, patience2) ==
    IF patience2 = None \/ patience2 = 0 THEN beam_size
    ELSE RoundHalfEven(beam_size * patience2)

\* A dict keyed by token sequence, in insertion order: a sequence of records
\* [seq, score, src]; assigning to a present key keeps its place.
KeyIndex(d, key) ==
    IF \E k \in 1 .. Len(d) : d[k].seq = key
    THEN CHOOSE k \in 1 .. Len(d) : d[k].seq = key
    ELSE 0

\* a store that keeps one entry per assignment
DictPutAppends(d, c) == Append(d, c)

DictPut(d, c) ==
    LET k == KeyIndex(d, c.seq)
    IN IF k = 0 THEN Append(d, c) ELSE [d EXCEPT ![k] = c]

RECURSIVE DictPutAll(_, _)
DictPutAll(d, cs) ==
    IF cs = <<>> THEN d ELSE DictPutAll(DictPut(d, cs[1]), Tail(cs))

\* an expansion by the top beam_size tokens of the row
RowCandidatesTopBeam(idx, toks, logprobs, sums, beam_size) ==
    LET top == TopK(logprobs[idx], beam_size, {})
    IN Eager([k \in 1 .. Len(top) |->
          [seq |-> Append(toks[idx], top[k]),
           score |-> AddLP(sums[idx], logprobs[idx][top[k]]),
           src |-> idx]])

\* STEP 1 for one row: the top beam_size + 1 tokens of the row, each with the
\* row's cumulative log-probability added
RowCandidates(idx, toks, logprobs, sums, beam_size) ==
    LET top == TopK(logprobs[idx], beam_size + 1, {})
    IN Eager([k \in 1 .. Len(top) |->
          [seq |-> Append(toks[idx], top[k]),
           score |-> AddLP(sums[idx], logprobs[idx][top[k]]),
           src |-> idx]])

\* STEP 1 for group i: scores / sources over the group's rows
RECURSIVE Expand(_, _, _, _, _, _)
Expand(i, j, toks, logprobs, sums, beam_size) ==
    IF j > beam_size THEN <<>>
    ELSE RowCandidates((i - 1) * beam_size + j, toks, logprobs, sums, beam_size)
            \o Expand(i, j + 1, toks, logprobs, sums, beam_size)

\* an insertion that sorts ascending
RECURSIVE InsertDescAscending(_, _)
InsertDescAscending(sorted, c) ==
    IF sorted = <<>> THEN <<c>>
    ELSE IF sorted[1].score <= c.score
         THEN <<sorted[1]>> \o InsertDescAscending(Tail(sorted), c)
         ELSE <<c>> \o sorted

\* sorted(scores, key=scores.get, reverse=True): stable, descending
RECURSIVE InsertDesc(_, _)
InsertDesc(sorted, c) ==
    IF sorted = <<>> THEN <<c>>
    ELSE IF sorted[1].score >= c.score
         THEN <<sorted[1]>> \o InsertDesc(Tail(sorted), c)
         ELSE <<c>> \o sorted

RECURSIVE SortDescFrom(_, _)
SortDescFrom(done, cs) ==
    IF cs = <<>> THEN done ELSE SortDescFrom(InsertDesc(done, cs[1]), Tail(cs))

SortDesc(cs) == SortDescFrom(<<>>, cs)

\* a walk that writes each kept score one group further down the vector
RECURSIVE SelectWalkWritesAhead(_, _, _, _, _)
SelectWalkWritesAhead(sorted, k, saved, acc, beam_size) ==
    IF k > Len(sorted) THEN acc
    ELSE LET c == sorted[k]
             at == Len(acc.next_tokens) + 1 + beam_size
         IN IF Last(c.seq) = eot
            THEN SelectWalkWritesAhead(sorted, k + 1, saved,
                                       [acc EXCEPT !.finished = Append(@, c)],
                                       beam_size)
            ELSE LET acc2 == [acc EXCEPT
                                !.sum_logprobs =
                                    IF at <= Len(@) THEN [@ EXCEPT ![at] = c.score]
                                    ELSE @,
                                !.next_tokens = Append(@, c.seq),
                                !.source_indices = Append(@, c.src)]
                 IN IF saved + 1 = beam_size THEN acc2
                    ELSE SelectWalkWritesAhead(sorted, k + 1, saved + 1, acc2,
                                               beam_size)

\* a walk that sets aside every candidate ending in end-of-text, those
\* behind the last kept one included
RECURSIVE SelectWalkToTheEnd(_, _, _, _, _)
SelectWalkToTheEnd(sorted, k, saved, acc, beam_size) ==
    IF k > Len(sorted) THEN acc
    ELSE LET c == sorted[k]
         IN IF Last(c.seq) = eot
            THEN SelectWalkToTheEnd(sorted, k + 1, saved,
                                    [acc EXCEPT !.finished = Append(@, c)],
                                    beam_size)
            ELSE IF saved >= beam_size
            THEN SelectWalkToTheEnd(sorted, k + 1, saved, acc, beam_size)
            ELSE SelectWalkToTheEnd(sorted, k + 1, saved + 1,
                    [acc EXCEPT
                        !.sum_logprobs[Len(acc.next_tokens) + 1] = c.score,
                        !.next_tokens = Append(@, c.seq),
                        !.source_indices = Append(@, c.src)],
                    beam_size)

\* STEP 2 for one group: walk the sorted candidates; acc carries next_tokens,
\* source_indices, the sum_logprobs tensor written in place, and `finished`
RECURSIVE SelectWalk(_, _, _, _, _)
SelectWalk(sorted, k, saved, acc, beam_size) ==
    IF k > Len(sorted) THEN acc
    ELSE LET c == sorted[k]
         IN IF Last(c.seq) = eot
            THEN SelectWalk(sorted, k + 1, saved,
                            [acc EXCEPT !.finished = Append(@, c)], beam_size)
            ELSE LET acc2 == [acc EXCEPT
                                !.sum_logprobs[Len(acc.next_tokens) + 1] = c.score,
                                !.next_tokens = Append(@, c.seq),
                                !.source_indices = Append(@, c.src)]
                 IN IF saved + 1 = beam_size THEN acc2
                    ELSE SelectWalk(sorted, k + 1, saved + 1, acc2, beam_size)

\* the loop over the audios of BeamSearchDecoder.update
RECURSIVE BeamGroups(_, _, _, _, _, _)
BeamGroups(i, n_audio, toks, logprobs, acc, beam_size) ==
    IF i > n_audio THEN acc
    ELSE LET scores == DictPutAll(<<>>,
                          Expand(i, 1, toks, logprobs, acc.sum_logprobs, beam_size))
             walked == SelectWalk(SortDesc(scores), 1, 0,
                                  [acc EXCEPT !.finished = <<>>], beam_size)
         IN BeamGroups(i + 1, n_audio, toks, logprobs,
                       [walked EXCEPT
                          !.finished_sequences = Append(acc.finished_sequences,
                                                        walked.finished),
                          !.candidates = Append(acc.candidates, scores)],
                       beam_size)

\* the merge below without its fullness test
RECURSIVE MergeFinishedUncapped(_, _, _)
MergeFinishedUncapped(previously, newly, max_candidates) ==
    IF newly = <<>> THEN previously
    ELSE MergeFinishedUncapped(DictPut(previously, [seq |-> newly[1].seq,
                                                    score |-> newly[1].score]),
                               Tail(newly), max_candidates)

\* a merge that makes room in a full set by dropping its first entry
RECURSIVE MergeFinishedEvicts(_, _, _)
MergeFinishedEvicts(previously, newly, max_candidates) ==
    IF newly = <<>> THEN previously
    ELSE IF Len(previously) >= max_candidates
         THEN MergeFinishedEvicts(Append(Tail(previously),
                                         [seq |-> newly[1].seq,
                                          score |-> newly[1].score]),
                                  Tail(newly), max_candidates)
    ELSE MergeFinishedEvicts(DictPut(previously, [seq |-> newly[1].seq,
                                                  score |-> newly[1].score]),
                             Tail(newly), max_candidates)

\* previously_finished[seq] = newly_finished[seq], best first, until full
RECURSIVE MergeFinished(_, _, _)
MergeFinished(previously, newly, max_candidates) ==
    IF newly = <<>> THEN previously
    ELSE IF Len(previously) >= max_candidates THEN previously
    ELSE MergeFinished(DictPut(previously, [seq |-> newly[1].seq,
                                            score |-> newly[1].score]),
                       Tail(newly), max_candidates)

\* BeamSearchDecoder.update without the cache call; `finished` is
\* self.finished_sequences, <<>> standing for None
\* an update that accepts every batch
BeamUpdateErrorNever(toks, beam_size) == "none"

\* the precondition of BeamSearchDecoder.update: the error it raises before
\* it reads or writes anything else, "none" when it goes on
BeamUpdateError(toks, beam_size) ==
    IF Len(toks) % beam_size # 0 THEN "ValueError" ELSE "none"

\* an update that reports completion once one audio has enough candidates
BeamUpdateAnyFull(toks, lgts, sums, finished, beam_size, max_candidates) ==
    LET n_audio == Len(toks) \div beam_size
        fs0 == IF finished = <<>> THEN [a \in 1 .. n_audio |-> <<>>] ELSE finished
        logprobs == Eager([r \in 1 .. Len(toks) |-> LogSoftmax(lgts[r])])
        acc == BeamGroups(1, n_audio, toks, logprobs,
                          [next_tokens |-> <<>>, source_indices |-> <<>>,
                           sum_logprobs |-> sums, finished |-> <<>>,
                           finished_sequences |-> <<>>, candidates |-> <<>>],
                          beam_size)
        fs1 == Eager([a \in 1 .. n_audio |->
                  MergeFinished(fs0[a], SortDesc(acc.finished_sequences[a]),
                                max_candidates)])
    IN [tokens |-> acc.next_tokens,
        sum_logprobs |-> acc.sum_logprobs,
        source_indices |-> acc.source_indices,
        finished_sequences |-> fs1,
        candidates |-> acc.candidates,
        newly |-> acc.finished_sequences,
        completed |-> \E a \in 1 .. n_audio : Len(fs1[a]) >= max_candidates]

BeamUpdate(toks, lgts, sums, finished, beam_size, max_candidates) ==
    LET n_audio == Len(toks) \div beam_size
        fs0 == IF finished = <<>> THEN [a \in 1 .. n_audio |-> <<>>] ELSE finished
        logprobs == Eager([r \in 1 .. Len(toks) |-> LogSoftmax(lgts[r])])
        acc == BeamGroups(1, n_audio, toks, logprobs,
                          [next_tokens |-> <<>>, source_indices |-> <<>>,
                           sum_logprobs |-> sums, finished |-> <<>>,
                           finished_sequences |-> <<>>, candidates |-> <<>>],
                          beam_size)
        fs1 == Eager([a \in 1 .. n_audio |->
                  MergeFinished(fs0[a], SortDesc(acc.finished_sequences[a]),
                                max_candidates)])
    IN [tokens |-> acc.next_tokens,
        sum_logprobs |-> acc.sum_logprobs,
        source_indices |-> acc.source_indices,
        finished_sequences |-> fs1,
        candidates |-> acc.candidates,
        newly |-> acc.finished_sequences,
        completed |-> \A a \in 1 .. n_audio : Len(fs1[a]) >= max_candidates]

\* np.argsort(sum_logprobs[i])[::-1]: the group's rows, best score first
\* (argsort is ascending and stable; reversing puts the later of two equal
\* scores first)
RECURSIVE InsertAsc(_, _)
InsertAsc(sorted, c) ==
    IF sorted = <<>> THEN <<c>>
    ELSE IF sorted[1].score <= c.score
         THEN <<sorted[1]>> \o InsertAsc(Tail(sorted), c)
         ELSE <<c>> \o sorted

RECURSIVE SortAscFrom(_, _)
SortAscFrom(done, cs) ==
    IF cs = <<>> THEN done ELSE SortAscFrom(InsertAsc(done, cs[1]), Tail(cs))

Reverse(s) == Eager([k \in 1 .. Len(s) |-> s[Len(s) + 1 - k]])

ArgSortReversed(cs) == Reverse(SortAscFrom(<<>>, cs))

\* a padding loop that goes through all rows of the audio
RECURSIVE PadFinishedAll(_, _, _)
PadFinishedAll(sequences, rows, beam_size) ==
    IF rows = <<>> THEN sequences
    ELSE PadFinishedAll(DictPut(sequences, rows[1]), Tail(rows), beam_size)

\* the padding loop of BeamSearchDecoder.finalize for one audio
RECURSIVE PadFinished(_, _, _)
PadFinished(sequences, rows, beam_size) ==
    IF rows = <<>> THEN sequences
    ELSE LET put == DictPut(sequences, rows[1])
         IN IF Len(put) >= beam_size THEN put
            ELSE PadFinished(put, Tail(rows), beam_size)

\* BeamSearchDecoder.finalize on the (n_audio, n_group) reshaped tensors
BeamFinalize(toks, sums, finished, n_audio, n_group, beam_size) ==
    [a \in 1 .. n_audio |->
        IF Len(finished[a]) < beam_size
        THEN PadFinished(finished[a],
                 ArgSortReversed([g \in 1 .. n_group |->
                     [seq |-> Append(toks[(a - 1) * n_group + g], eot),
                      score |-> sums[(a - 1) * n_group + g]]]),
                 beam_size)
        ELSE finished[a]]

\* a cache that is left in its old row order
RearrangeKvCacheSkipped(cache, source_indices) == cache

\* PyTorchInference.rearrange_kv_cache: one cache row per batch row
RearrangeKvCache(cache, source_indices) ==
    IF source_indices # [k \in 1 .. Len(source_indices) |-> k]
    THEN [k \in 1 .. Len(source_indices) |-> cache[source_indices[k]]]
    ELSE cache

\* ------------------------------------------------------------------- state
VARIABLES
    options,            \* the DecodingOptions and the model's dimensions
    pc,                 \* where the task is: new, init_failed, ready, loop, step,
                        \* after_loop, done, failed
    exc,                \* the exception that left __init__ or run, or "none"
    tokens,             \* the hypothesis batch, one token sequence per row
    sum_logprobs,       \* cumulative log-probability per row
    logits,             \* the newest forward pass's last-position logits per row
    finished_sequences, \* decoder.finished_sequences, <<>> for None
    kv_cache,           \* inference.kv_cache: per row the positions fed so far
    hooks,              \* inference.hooks installed
    i,                  \* the sample loop's counter
    cleanup_calls,      \* calls of inference.cleanup_caching in this run
    result,             \* what run returned
    last,               \* the newest decoder.update: its inputs and by-products
    final,              \* the candidates of run after finalize, per audio
    twin,               \* a second decoder fed the same logits (SpecEquiv only)
    calls,              \* what __init__ constructed, and the calls the current
                        \* run has issued to the model and to its collaborators
    runs                \* calls of run on this DecodingTask so far

vars == <<options, pc, exc, tokens, sum_logprobs, logits, finished_sequences,
          kv_cache, hooks, i, cleanup_calls, result, last, final, twin,
          calls, runs>>

decoderVars == <<tokens, sum_logprobs, logits, finished_sequences, last, final>>
cacheVars == <<kv_cache, hooks, cleanup_calls>>

\* --------------------------------------------------------- DecodingTask init
\* a validation that accepts patience without beam_size
VerifyOptionsNoPatience(o) ==
    IF o.beam_size # None /\ o.best_of # None THEN "ValueError"
    ELSE IF o.temperature = 0 /\ o.best_of # None THEN "ValueError"
    ELSE IF o.length_penalty # None /\ ~(0 <= o.length_penalty /\ o.length_penalty <= 1)
         THEN "ValueError"
    ELSE "none"

\* DecodingTask._verify_options: the error it raises, "none" when it returns
VerifyOptions(o) ==
    IF o.beam_size # None /\ o.best_of # None THEN "ValueError"
    ELSE IF o.temperature = 0 /\ o.best_of # None THEN "ValueError"
    ELSE IF o.patience2 # None /\ o.beam_size = None THEN "ValueError"
    ELSE IF o.length_penalty # None /\ ~(0 <= o.length_penalty /\ o.length_penalty <= 1)
         THEN "ValueError"
    ELSE "none"

\* options.beam_size or options.best_of or 1
NGroup(o) ==
    IF o.beam_size # None THEN o.beam_size
    ELSE IF o.best_of # None THEN o.best_of ELSE 1

\* options.sample_len or model.dims.n_text_ctx // 2
SampleLen(o) ==
    IF o.sample_len # None /\ o.sample_len # 0 THEN o.sample_len
    ELSE o.n_ctx \div 2

\* tokenizer.sot_sequence, or sot_sequence_including_notimestamps
SotSequence(o) ==
    IF o.without_timestamps THEN <<sot, lang_en, translate, no_timestamps>>
    ELSE <<sot, lang_en, translate>>

\* the python slice s[-m:]: the last m elements when m is positive, the whole
\* of s when m is 0, s without its first -m elements when m is negative
SliceFromEnd(s, m) ==
    IF m > 0 THEN SubSeq(s, (IF Len(s) > m THEN Len(s) - m + 1 ELSE 1), Len(s))
    ELSE IF m = 0 THEN s
    ELSE SubSeq(s, 1 - m, Len(s))

\* max_prefix_len = self.n_ctx // 2 - self.sample_len
MaxPrefixLen(o) == (o.n_ctx \div 2) - SampleLen(o)

\* DecodingTask._get_initial_tokens; no prompt is configured
InitialTokens(o) ==
    IF o.prefix # <<>>
    THEN SotSequence(o) \o SliceFromEnd(o.prefix, MaxPrefixLen(o))
    ELSE SotSequence(o)

SampleBegin(o) == Len(InitialTokens(o))

\* which TokenDecoder __init__ constructs
DecoderKind(o) ==
    IF o.beam_size # None
    THEN IF o.withlm THEN "beamlm" ELSE "beam"
    ELSE "greedy"

\* max_initial_timestamp_index = round(max_initial_timestamp / precision);
\* max_initial_timestamp is given in halves of the timestamp precision, and
\* 0 is falsy
MaxInitialTimestampIndex(o) ==
    IF o.max_initial_timestamp # None /\ o.max_initial_timestamp # 0
    THEN RoundHalfEven(o.max_initial_timestamp) ELSE None

\* the error DecodingTask.__init__ raises, "none" when it returns
ConstructError(o) ==
    IF VerifyOptions(o) # "none" THEN VerifyOptions(o)
    ELSE IF o.beam_size # None /\ ~(MaxCandidates(o.beam_size, o.patience2) > 0)
         THEN "AssertionError"
    ELSE "none"

EmptyLast ==
    [tokens |-> <<>>, sum_logprobs |-> <<>>, logits |-> <<>>,
     source_indices |-> <<>>, candidates |-> <<>>, newly |-> <<>>,
     completed |-> FALSE]

\* nothing constructed, nothing called
NoCalls ==
    [constructed |-> {}, encoder |-> 0, detect |-> 0, logits |-> 0,
     filters |-> 0, update |-> 0, finalize |-> 0, rank |-> 0]

\* the objects DecodingTask.__init__ has constructed when it returns or
\* raises: _verify_options runs before every constructor, and the decoder's
\* assertion fails after the inference object and the ranker exist
Constructed(o) ==
    IF VerifyOptions(o) # "none" THEN {}
    ELSE IF ConstructError(o) # "none" THEN {"inference", "ranker"}
    ELSE {"inference", "ranker", "decoder", "filters"}

\* DecodingTask.__init__
Construct ==
    /\ pc = "new"
    /\ exc' = ConstructError(options)
    /\ pc' = IF ConstructError(options) = "none" THEN "ready" ELSE "init_failed"
    /\ calls' = [NoCalls EXCEPT !.constructed = Constructed(options)]
    /\ UNCHANGED <<options, twin, runs, decoderVars, cacheVars, i, result>>

\* ------------------------------------------------------------------- run
\* the inference object: its cache, its hooks, and the calls of cleanup_caching
Inference(cache, installed, cleanups) ==
    [kv_cache |-> cache, hooks |-> installed, cleanup_calls |-> cleanups]

\* a cleanup that empties the cache and leaves the hooks installed
CleanupCachingKeepsHooks(inf) ==
    [kv_cache |-> <<>>, hooks |-> inf.hooks,
     cleanup_calls |-> inf.cleanup_calls + 1]

\* PyTorchInference.cleanup_caching
CleanupCaching(inf) ==
    [kv_cache |-> <<>>, hooks |-> FALSE, cleanup_calls |-> inf.cleanup_calls + 1]

AudioOf(row, o) == ((row - 1) \div NGroup(o)) + 1

\* a run that goes on to the sample loop whatever the task
ReturnsAfterDetectionNever(o) == FALSE

\* options.language unset
NoLanguage == "None"

\* _detect_language calls model.detect_language
DetectionRequested(o) == o.language = NoLanguage \/ o.task = "lang_id"

\* detect_language raises ValueError: the tokenizer of a model that is not
\* multilingual has no language token
DetectionFails(o) == DetectionRequested(o) /\ ~o.multilingual

\* run returns right after _detect_language
ReturnsAfterDetection(o) == o.task = "lang_id"

\* a reset that keeps the finished sequences
DecoderResetKeeps(finished) == finished

\* TokenDecoder.reset: finished_sequences = None
DecoderReset(finished) == <<>>

\* _get_audio_features: input that already has the shape of encoded audio
\* features skips the encoder
EncoderPasses(o) == IF o.encoded THEN 0 ELSE 1

\* the calls of a run that has come to its encoder pass and to `detected`
\* calls of model.detect_language
RunCalls(c, detected) ==
    [NoCalls EXCEPT !.constructed = c.constructed,
                    !.encoder = EncoderPasses(options),
                    !.detect = detected]

\* run up to the sample loop: decoder.reset(), the encoder pass, the initial
\* tokens repeated per audio and per group member, and the loop's own setup
RunStart ==
    /\ pc = "ready"
    /\ ~ReturnsAfterDetection(options)
    /\ ~DetectionFails(options)
    /\ runs' = runs + 1
    /\ calls' = RunCalls(calls, IF DetectionRequested(options) THEN 1 ELSE 0)
    /\ finished_sequences' = DecoderReset(finished_sequences)
    /\ tokens' = [r \in 1 .. (options.n_audio * NGroup(options)) |->
                    InitialTokens(options)]
    /\ sum_logprobs' = [r \in 1 .. (options.n_audio * NGroup(options)) |-> 0]
    /\ i' = 0
    /\ cleanup_calls' = 0
    /\ pc' = "loop"
    /\ UNCHANGED <<options, twin, exc, logits, kv_cache, hooks, result, last, final>>

\* task == "lang_id": run returns after _detect_language
RunLangId ==
    /\ pc = "ready"
    /\ ReturnsAfterDetection(options)
    /\ ~DetectionFails(options)
    /\ runs' = runs + 1
    /\ calls' = RunCalls(calls, 1)
    /\ finished_sequences' = DecoderReset(finished_sequences)
    /\ cleanup_calls' = 0
    /\ result' = [a \in 1 .. options.n_audio |->
                    [tokens |-> <<>>, language |-> "en", has_probs |-> TRUE,
                     logprob |-> 0, length |-> 0]]
    /\ pc' = "done"
    /\ UNCHANGED <<options, twin, exc, tokens, sum_logprobs, logits, kv_cache, hooks,
                   i, last, final>>

\* the encoder or the language classifier raises before the sample loop
RunStartRaises ==
    /\ pc = "ready"
    /\ runs' = runs + 1
    /\ \E detected \in 0 .. (IF DetectionRequested(options) /\ ~DetectionFails(options)
                              THEN 1 ELSE 0) :
          calls' = RunCalls(calls, detected)
    /\ finished_sequences' = DecoderReset(finished_sequences)
    /\ cleanup_calls' = 0
    /\ exc' = "ModelError"
    /\ pc' = "failed"
    /\ UNCHANGED <<options, twin, tokens, sum_logprobs, logits, kv_cache, hooks, i,
                   result, last, final>>

\* detection is requested of a model without language tokens: run has made
\* its encoder pass (_get_audio_features) when detect_language raises, before
\* detect_language calls the model
RunDetectRaises ==
    /\ pc = "ready"
    /\ DetectionFails(options)
    /\ runs' = runs + 1
    /\ calls' = RunCalls(calls, 0)
    /\ finished_sequences' = DecoderReset(finished_sequences)
    /\ cleanup_calls' = 0
    /\ exc' = "ValueError"
    /\ pc' = "failed"
    /\ UNCHANGED <<options, twin, tokens, sum_logprobs, logits, kv_cache, hooks, i,
                   result, last, final>>

\* a forward pass that feeds the whole token tensor every time
ForwardFeedsAll ==
    /\ pc = "loop"
    /\ \E c \in 0 .. (Len(options.net) - 1) :
          logits' = [r \in 1 .. Len(tokens) |->
                        NetLogits(c, AudioOf(r, options), tokens[r], options.net)]
    /\ hooks' = TRUE
    /\ kv_cache' = [r \in 1 .. Len(tokens) |->
                      (IF kv_cache = <<>> THEN <<>> ELSE kv_cache[r])
                              \o tokens[r]]
    /\ pc' = "step"
    /\ calls' = [calls EXCEPT !.logits = @ + 1]
    /\ UNCHANGED <<options, twin, runs, exc, tokens, sum_logprobs, finished_sequences, i,
                   cleanup_calls, result, last, final>>

\* inference.logits and logits[:, -1]: the first pass feeds every position,
\* later passes the newest one; the hooks append what is fed to the cache
Forward ==
    /\ pc = "loop"
    /\ \E c \in 0 .. (Len(options.net) - 1) :
          logits' = [r \in 1 .. Len(tokens) |->
                        NetLogits(c, AudioOf(r, options), tokens[r], options.net)]
    /\ hooks' = TRUE
    /\ kv_cache' = [r \in 1 .. Len(tokens) |->
                      IF Len(tokens[r]) > SampleBegin(options)
                      THEN kv_cache[r] \o <<Last(tokens[r])>>
                      ELSE (IF kv_cache = <<>> THEN <<>> ELSE kv_cache[r])
                              \o tokens[r]]
    /\ pc' = "step"
    /\ calls' = [calls EXCEPT !.logits = @ + 1]
    /\ UNCHANGED <<options, twin, runs, exc, tokens, sum_logprobs, finished_sequences, i,
                   cleanup_calls, result, last, final>>

\* a loop without the finally clause
LeaveLoopNoFinally(inf) == inf

\* leaving _main_loop, by break, by exhaustion or by an exception, runs its
\* finally clause
LeaveLoop(inf) == CleanupCaching(inf)

\* the inference object after one iteration that leaves the loop or stays
AfterIteration(inf, exits) == IF exits THEN LeaveLoop(inf) ELSE inf

\* the forward pass raises: the hooks are installed, the finally clause runs
ForwardRaises ==
    /\ pc = "loop"
    /\ \E inf \in {LeaveLoop(Inference(kv_cache, TRUE, cleanup_calls))} :
          /\ kv_cache' = inf.kv_cache
          /\ hooks' = inf.hooks
          /\ cleanup_calls' = inf.cleanup_calls
    /\ exc' = "ModelError"
    /\ pc' = "failed"
    /\ calls' = [calls EXCEPT !.logits = @ + 1]
    /\ UNCHANGED <<options, twin, runs, decoderVars, i, result>>

\* a logit filter or decoder.update raises in the numeric backend
StepRaises ==
    /\ pc = "step"
    /\ \E inf \in {LeaveLoop(Inference(kv_cache, hooks, cleanup_calls))} :
          /\ kv_cache' = inf.kv_cache
          /\ hooks' = inf.hooks
          /\ cleanup_calls' = inf.cleanup_calls
    /\ exc' = "BackendError"
    /\ pc' = "failed"
    /\ UNCHANGED <<options, twin, runs, calls, decoderVars, i, result>>

\* for logit_filter in self.logit_filters: logit_filter.apply(logits, tokens)
ApplyFilters(lgts, toks, o) ==
    Eager([r \in 1 .. Len(toks) |->
        LET r1 == IF o.suppress_blank
                  THEN SuppressBlankRow(lgts[r], Len(toks[r]), SampleBegin(o))
                  ELSE lgts[r]
            r2 == IF SuppressInstalled(o)
                  THEN SuppressTokensRow(r1, GetSuppressTokens(o))
                  ELSE r1
        IN IF ~o.without_timestamps
           THEN ApplyTimestampRulesRow(r2, toks[r], SampleBegin(o),
                                       MaxInitialTimestampIndex(o))
           ELSE r2])

\* a loop that goes on after the decoder has reported completion
LoopExitsIgnoresCompleted(completed, toks, o, k) ==
    \/ (IF toks = <<>> THEN 0 ELSE Len(toks[1])) > o.n_ctx
    \/ k + 1 >= SampleLen(o)

\* if completed or tokens.shape[-1] > self.n_ctx: break; or the range is used up
LoopExits(completed, toks, o, k) ==
    \/ completed
    \/ (IF toks = <<>> THEN 0 ELSE Len(toks[1])) > o.n_ctx
    \/ k + 1 >= SampleLen(o)

\* one iteration of the sample loop after the forward pass, greedy decoder
GreedyStep ==
    /\ pc = "step"
    /\ DecoderKind(options) = "greedy"
    /\ \E draw \in 0 .. options.temperature :
       \E filtered \in {ApplyFilters(logits, tokens, options)} :
       \E u \in {GreedyUpdate(tokens, filtered, sum_logprobs,
                              options.temperature, draw)} :
       \E exits \in {LoopExits(u.completed, u.tokens, options, i)} :
           /\ tokens' = u.tokens
           /\ sum_logprobs' = u.sum_logprobs
           /\ last' = [EmptyLast EXCEPT !.tokens = tokens, !.sum_logprobs = sum_logprobs,
                                        !.logits = filtered, !.completed = u.completed]
           /\ i' = i + 1
           /\ pc' = IF exits THEN "after_loop" ELSE "loop"
           /\ \E inf \in {AfterIteration(Inference(kv_cache, hooks, cleanup_calls),
                                         exits)} :
                 /\ kv_cache' = inf.kv_cache
                 /\ hooks' = inf.hooks
                 /\ cleanup_calls' = inf.cleanup_calls
    /\ calls' = [calls EXCEPT !.filters = @ + 1, !.update = @ + 1]
    /\ UNCHANGED <<options, twin, runs, exc, logits, finished_sequences, result, final>>

\* one iteration of the sample loop after the forward pass, beam decoder
BeamStep ==
    /\ pc = "step"
    /\ DecoderKind(options) = "beam"
    /\ \E filtered \in {ApplyFilters(logits, tokens, options)} :
       \E u \in {BeamUpdate(tokens, filtered, sum_logprobs, finished_sequences,
                            options.beam_size,
                            MaxCandidates(options.beam_size, options.patience2))} :
       \E rearranged \in {RearrangeKvCache(kv_cache, u.source_indices)} :
       \E exits \in {LoopExits(u.completed, u.tokens, options, i)} :
          /\ tokens' = u.tokens
          /\ sum_logprobs' = u.sum_logprobs
          /\ finished_sequences' = u.finished_sequences
          /\ last' = [tokens |-> tokens, sum_logprobs |-> sum_logprobs,
                      logits |-> filtered, source_indices |-> u.source_indices,
                      candidates |-> u.candidates, newly |-> u.newly,
                      completed |-> u.completed]
          /\ i' = i + 1
          /\ pc' = IF exits THEN "after_loop" ELSE "loop"
          /\ \E inf \in {AfterIteration(Inference(rearranged, hooks, cleanup_calls),
                                        exits)} :
                /\ kv_cache' = inf.kv_cache
                /\ hooks' = inf.hooks
                /\ cleanup_calls' = inf.cleanup_calls
    /\ calls' = [calls EXCEPT !.filters = @ + 1, !.update = @ + 1]
    /\ UNCHANGED <<options, twin, runs, exc, logits, result, final>>

\* ------------------------------------------------------ LM-fused beam decoder
lm_alpha == 2
\* twice lm_beta (2.5)
lm_beta2 == 5

\* kenlm's BaseScore(state, token): the external scorer's incremental log10
\* probability of `token` after `history`
LMBaseScore(history, token) == 0 - (1 + ((Len(history) + token) % 3))

\* prob += self.lm.BaseScore(...) over prefix[skip_len:], skip_len = 4
RECURSIVE LMPrefixScore(_, _)
LMPrefixScore(prefix, k) ==
    IF k > Len(prefix) THEN 0
    ELSE LMBaseScore(SubSeq(prefix, 5, k - 1), prefix[k]) + LMPrefixScore(prefix, k + 1)

\* prefix.index(50258) raises ValueError when the row holds no sot
LMUpdateError(toks) ==
    IF \E r \in 1 .. Len(toks) : sot \notin Range(toks[r]) THEN "ValueError"
    ELSE "none"

\* a STEP 1 with shallow fusion: lm_alpha times the scorer's value of the
\* token and lm_beta are added to the token's log-probability
LMRowCandidatesFused(idx, toks, logprobs_for_lm, sums, beam_size) ==
    LET top == TopK(logprobs_for_lm[idx], beam_size + 1, {})
    IN Eager([k \in 1 .. Len(top) |->
          [seq |-> Append(toks[idx], top[k]),
           score |-> AddLP(sums[idx],
                           AddLP(logprobs_for_lm[idx][top[k]],
                                 lm_alpha * LMBaseScore(toks[idx], top[k])
                                    + (lm_beta2 \div 2))),
           src |-> idx]])

\* STEP 1 of BeamSearchDecoderWithLM.update for one row: the top beam_size + 1
\* tokens of logprobs_for_lm[idx], each with the row's cumulative
\* log-probability added
LMRowCandidates(idx, toks, logprobs_for_lm, sums, beam_size) ==
    LET top == TopK(logprobs_for_lm[idx], beam_size + 1, {})
    IN Eager([k \in 1 .. Len(top) |->
          [seq |-> Append(toks[idx], top[k]),
           score |-> AddLP(sums[idx], logprobs_for_lm[idx][top[k]]),
           src |-> idx]])

\* STEP 1 for group g of BeamSearchDecoderWithLM.update
RECURSIVE LMExpand(_, _, _, _, _, _)
LMExpand(g, j, toks, logprobs_for_lm, sums, beam_size) ==
    IF j > beam_size THEN <<>>
    ELSE LMRowCandidates((g - 1) * beam_size + j, toks, logprobs_for_lm, sums,
                         beam_size)
            \o LMExpand(g, j + 1, toks, logprobs_for_lm, sums, beam_size)

\* the loop over the audios of BeamSearchDecoderWithLM.update; STEP 2 is the
\* walk of BeamSearchDecoder.update, statement for statement
RECURSIVE LMBeamGroups(_, _, _, _, _, _)
LMBeamGroups(g, n_audio, toks, logprobs_for_lm, acc, beam_size) ==
    IF g > n_audio THEN acc
    ELSE LET scores == DictPutAll(<<>>,
                          LMExpand(g, 1, toks, logprobs_for_lm, acc.sum_logprobs,
                                   beam_size))
             walked == SelectWalk(SortDesc(scores), 1, 0,
                                  [acc EXCEPT !.finished = <<>>], beam_size)
         IN LMBeamGroups(g + 1, n_audio, toks, logprobs_for_lm,
                         [walked EXCEPT
                            !.finished_sequences = Append(acc.finished_sequences,
                                                          walked.finished),
                            !.candidates = Append(acc.candidates, scores)],
                         beam_size)

\* BeamSearchDecoderWithLM.update without the cache call.  `prob` is computed
\* for rows longer than the four skipped tokens and is read by no statement:
\* the candidates are scored with logprobs_for_lm = log_softmax(logits) alone.
BeamLMUpdate(toks, lgts, sums, finished, beam_size, max_candidates) ==
    LET n_audio == Len(toks) \div beam_size
        fs0 == IF finished = <<>> THEN [a \in 1 .. n_audio |-> <<>>] ELSE finished
        logprobs_for_lm == Eager([r \in 1 .. Len(toks) |-> LogSoftmax(lgts[r])])
        prob == [r \in 1 .. Len(toks) |->
                    IF Len(toks[r]) > 4 THEN LMPrefixScore(toks[r], 5) ELSE 0]
        acc == LMBeamGroups(1, n_audio, toks, logprobs_for_lm,
                            [next_tokens |-> <<>>, source_indices |-> <<>>,
                             sum_logprobs |-> sums, finished |-> <<>>,
                             finished_sequences |-> <<>>, candidates |-> <<>>],
                            beam_size)
        fs1 == Eager([a \in 1 .. n_audio |->
                  MergeFinished(fs0[a], SortDesc(acc.finished_sequences[a]),
                                max_candidates)])
    IN [tokens |-> acc.next_tokens,
        sum_logprobs |-> acc.sum_logprobs,
        source_indices |-> acc.source_indices,
        finished_sequences |-> fs1,
        candidates |-> acc.candidates,
        newly |-> acc.finished_sequences,
        completed |-> \A a \in 1 .. n_audio : Len(fs1[a]) >= max_candidates]

\* one iteration of the sample loop after the forward pass, LM-fused decoder
BeamLMStep ==
    /\ pc = "step"
    /\ DecoderKind(options) = "beamlm"
    /\ \E filtered \in {ApplyFilters(logits, tokens, options)} :
       \E err \in {LMUpdateError(tokens)} :
       \E u \in {BeamLMUpdate(tokens, filtered, sum_logprobs, finished_sequences,
                              options.beam_size,
                              MaxCandidates(options.beam_size, options.patience2))} :
       \E rearranged \in {RearrangeKvCache(kv_cache, u.source_indices)} :
       \E exits \in {err # "none" \/ LoopExits(u.completed, u.tokens, options, i)} :
          /\ tokens' = IF err = "none" THEN u.tokens ELSE tokens
          /\ sum_logprobs' = IF err = "none" THEN u.sum_logprobs ELSE sum_logprobs
          /\ finished_sequences' = IF err = "none" THEN u.finished_sequences
                                   ELSE IF finished_sequences = <<>>
                                        THEN [a \in 1 .. options.n_audio |-> <<>>]
                                        ELSE finished_sequences
          /\ last' = IF err = "none"
                     THEN [tokens |-> tokens, sum_logprobs |-> sum_logprobs,
                           logits |-> filtered, source_indices |-> u.source_indices,
                           candidates |-> u.candidates, newly |-> u.newly,
                      completed |-> u.completed]
                     ELSE last
          /\ i' = IF err = "none" THEN i + 1 ELSE i
          /\ exc' = err
          /\ pc' = IF err # "none" THEN "failed"
                   ELSE IF exits THEN "after_loop" ELSE "loop"
          /\ \E inf \in {AfterIteration(Inference(rearranged, hooks, cleanup_calls),
                                        exits)} :
                /\ kv_cache' = inf.kv_cache
                /\ hooks' = inf.hooks
                /\ cleanup_calls' = inf.cleanup_calls
    /\ calls' = [calls EXCEPT !.filters = @ + 1, !.update = @ + 1]
    /\ UNCHANGED <<options, twin, runs, logits, result, final>>

\* ------------------------------------------------------- run after the loop
\* (t == tokenizer.eot).nonzero()[0, 0], 1-based; 0 when t holds no eot
FirstEot(seq) ==
    IF \E k \in 1 .. Len(seq) : seq[k] = eot
    THEN CHOOSE k \in 1 .. Len(seq) :
            seq[k] = eot /\ \A m \in 1 .. (k - 1) : seq[m] # eot
    ELSE 0

\* t[self.sample_begin : (t == tokenizer.eot).nonzero()[0, 0]]
\* a slice that ends on the first end-of-text token, not before it
TrimKeepsEot(seq, sample_begin) == SubSeq(seq, sample_begin + 1, FirstEot(seq))

Trim(seq, sample_begin) == SubSeq(seq, sample_begin + 1, FirstEot(seq) - 1)

\* audio_features[:: self.n_group] keeps every n_group-th of the n_audio rows
StridedLen(n, step) == (n + step - 1) \div step

\* assert audio_features.shape[0] == len(no_speech_probs) == n_audio
ShapesAgree(o) ==
    /\ StridedLen(o.n_audio, NGroup(o)) = StridedLen(o.n_audio * NGroup(o), NGroup(o))
    /\ StridedLen(o.n_audio * NGroup(o), NGroup(o)) = o.n_audio

\* decoder.finalize
Finalize(o, toks, sums, finished) ==
    IF DecoderKind(o) = "greedy"
    THEN GreedyFinalize(toks, sums, o.n_audio, NGroup(o))
    ELSE BeamFinalize(toks, sums, finished, o.n_audio, NGroup(o), o.beam_size)

\* the candidates of one audio after trimming; `penalised` are the indices of
\* the first audio's candidates whose text the language detector does not
\* take for English: their score loses LangPenalty
Trimmed(cands, sample_begin, penalised) ==
    Eager([k \in 1 .. Len(cands) |->
        [seq |-> Trim(cands[k].seq, sample_begin),
         full |-> cands[k].seq,
         fscore |-> cands[k].score,
         score |-> IF k \in penalised THEN AddLP(cands[k].score, 0 - LangPenalty)
                   ELSE cands[k].score]])

\* the error run raises after the loop, "none" when it returns
FinishError(o, cands) ==
    IF ~ShapesAgree(o) THEN "AssertionError"
    ELSE IF \E a \in 1 .. Len(cands) : \E k \in 1 .. Len(cands[a]) :
                FirstEot(cands[a][k].full) = 0
         THEN "IndexError"
    ELSE IF \E a \in 1 .. Len(cands) :
                RankRaises([k \in 1 .. Len(cands[a]) |-> Len(cands[a][k].seq)],
                           o.length_penalty)
         THEN "ZeroDivisionError"
    ELSE "none"

\* sequence_ranker.rank and the DecodingResult of one audio
ResultOf(cands, length_penalty) ==
    LET sel == RankOne([k \in 1 .. Len(cands) |-> cands[k].score],
                       [k \in 1 .. Len(cands) |-> Len(cands[k].seq)],
                       length_penalty)
    IN [tokens |-> cands[sel].seq, language |-> "en", has_probs |-> FALSE,
        logprob |-> cands[sel].score, length |-> Len(cands[sel].seq) + 1]

\* the language detector's verdicts on the first audio's n candidates: none
\* or one of them is taken for another language
Penalised(n) == {{}} \cup {{k} : k \in 1 .. n}

\* run from the end of _main_loop to its return
Finish ==
    /\ pc = "after_loop"
    /\ \E fin \in {IF ShapesAgree(options)
                    THEN Eager(Finalize(options, tokens, sum_logprobs,
                                        finished_sequences))
                    ELSE <<>>} :
       \E penalised \in Penalised(IF fin = <<>> THEN 0 ELSE Len(fin[1])) :
       \E cands \in {Eager([a \in 1 .. Len(fin) |->
                           Trimmed(fin[a], SampleBegin(options),
                                   IF a = 1 THEN penalised ELSE {})])} :
       \E err \in {FinishError(options, cands)} :
              /\ finished_sequences' =
                    IF ShapesAgree(options) /\ DecoderKind(options) # "greedy"
                    THEN fin ELSE finished_sequences
              /\ final' = cands
              /\ exc' = err
              /\ pc' = IF err = "none" THEN "done" ELSE "failed"
              /\ result' = IF err = "none"
                           THEN [a \in 1 .. Len(cands) |->
                                   ResultOf(cands[a], options.length_penalty)]
                           ELSE result
    /\ calls' = [calls EXCEPT
                    !.finalize = IF ShapesAgree(options) THEN @ + 1 ELSE @,
                    !.rank = IF exc' \in {"none", "ZeroDivisionError"}
                             THEN @ + 1 ELSE @]
    /\ UNCHANGED <<options, twin, runs, tokens, sum_logprobs, logits, cacheVars, i, last>>

\* ------------------------------------------------------------ specification
BaseOptions ==
    [task |-> "translate", temperature |-> 0, sample_len |-> MaxSampleLen,
     best_of |-> None, beam_size |-> None, patience2 |-> None,
     length_penalty |-> None, suppress_blank |-> TRUE,
     without_timestamps |-> FALSE, max_initial_timestamp |-> 2,
     withlm |-> FALSE, n_audio |-> 1, n_ctx |-> 8,
     net |-> <<1, 2, 3, 4, 8>>, language |-> "en", multilingual |-> TRUE,
     encoded |-> FALSE, prefix |-> <<>>, suppress_tokens |-> SuppressDefault]

\* patience unset, 0.5, 1.0, 1.5
PatienceValues == {None, 1, 2, 3}

\* beam search without timestamps, every beam size, patience and batch size
BeamOptions ==
    {[BaseOptions EXCEPT !.beam_size = b, !.patience2 = p, !.n_audio = n,
                         !.without_timestamps = TRUE] :
        b \in 1 .. MaxBeam, p \in PatienceValues, n \in 1 .. MaxAudio}

\* the LM-fused decoder
BeamLMOptions ==
    {[BaseOptions EXCEPT !.beam_size = b, !.withlm = TRUE,
                         !.without_timestamps = TRUE] : b \in 1 .. MaxBeam}

\* timestamps enabled, a longer budget, a network that favours timestamps;
\* a first timestamp bounded by nothing, by 0 and by half and one precision
TimestampOptions ==
    {[BaseOptions EXCEPT !.beam_size = b, !.sample_len = MaxSampleLen + 2,
                         !.max_initial_timestamp = m,
                         !.net = <<1, 4, 5, 6, 9>>] :
        b \in {None, MaxBeam}, m \in {None, 2}}
    \cup {[BaseOptions EXCEPT !.beam_size = b, !.sample_len = MaxSampleLen,
                              !.max_initial_timestamp = m,
                              !.net = <<1, 4, 5, 6, 9>>] :
            b \in {None, MaxBeam}, m \in {0, 1}}

\* greedy decoding and best-of-n sampling, a context that overflows
GreedyOptions ==
    {[BaseOptions EXCEPT !.temperature = 0, !.best_of = g, !.n_audio = n,
                         !.without_timestamps = TRUE, !.suppress_blank = sb,
                         !.n_ctx = c, !.length_penalty = lp] :
        g \in {None, 2}, n \in 1 .. MaxAudio,
        sb \in BOOLEAN, c \in {5, 8}, lp \in {None, 1}}
    \cup {[BaseOptions EXCEPT !.temperature = 1, !.best_of = g, !.n_audio = n,
                              !.without_timestamps = TRUE, !.suppress_blank = sb,
                              !.n_ctx = c, !.length_penalty = lp] :
            g \in {None, 2}, n \in {1, 2},
            sb \in BOOLEAN, c \in {5, 8}, lp \in {None, 1}}

LangIdOptions ==
    {[BaseOptions EXCEPT !.task = "lang_id", !.n_audio = n, !.language = l] :
        n \in 1 .. MaxAudio, l \in {"en", NoLanguage}}

\* language detection requested of a model with and without language tokens
DetectOptions ==
    {[BaseOptions EXCEPT !.task = t, !.language = NoLanguage, !.multilingual = m,
                         !.without_timestamps = TRUE, !.encoded = e] :
        t \in {"translate", "lang_id"}, m \in BOOLEAN, e \in BOOLEAN}

\* options _verify_options rejects: beam_size with best_of, patience
\* without beam_size, a length_penalty above 1
InvalidOptions ==
    {[BaseOptions EXCEPT !.temperature = 1, !.beam_size = MaxBeam, !.best_of = 2],
     [BaseOptions EXCEPT !.beam_size = MaxBeam, !.best_of = 2],
     [BaseOptions EXCEPT !.patience2 = 2],
     [BaseOptions EXCEPT !.temperature = 1, !.patience2 = 3],
     [BaseOptions EXCEPT !.length_penalty = 2],
     [BaseOptions EXCEPT !.beam_size = MaxBeam, !.length_penalty = 2]}

\* beam search with a patience of 0
ZeroPatienceOptions ==
    {[BaseOptions EXCEPT !.beam_size = b, !.patience2 = 0,
                         !.without_timestamps = TRUE] : b \in 1 .. MaxBeam}

\* suppress_tokens as an explicit list, with and without the -1 sentinel, as
\* an empty list or string, and as None
SuppressOptions ==
    {[BaseOptions EXCEPT !.without_timestamps = TRUE, !.suppress_tokens = st] :
        st \in {SuppressGiven(<<text_a>>), SuppressGiven(<<-1, text_a>>),
                SuppressGiven(<<>>), SuppressNone}}

AllOptions ==
    BeamOptions \cup BeamLMOptions \cup TimestampOptions \cup GreedyOptions
        \cup LangIdOptions \cup DetectOptions \cup InvalidOptions
        \cup ZeroPatienceOptions \cup SuppressOptions

InitWith(optionSet) ==
    /\ options \in optionSet
    /\ pc = "new"
    /\ exc = "none"
    /\ tokens = <<>>
    /\ sum_logprobs = <<>>
    /\ logits = <<>>
    /\ finished_sequences = <<>>
    /\ kv_cache = <<>>
    /\ hooks = FALSE
    /\ i = 0
    /\ cleanup_calls = 0
    /\ result = <<>>
    /\ last = EmptyLast
    /\ final = <<>>
    /\ twin = <<>>
    /\ calls = NoCalls
    /\ runs = 0

Init == InitWith(AllOptions)

Next ==
    \/ Construct
    \/ RunStart
    \/ RunLangId
    \/ RunStartRaises
    \/ RunDetectRaises
    \/ Forward
    \/ ForwardRaises
    \/ StepRaises
    \/ GreedyStep
    \/ BeamStep
    \/ BeamLMStep
    \/ Finish

Spec == Init /\ [][Next]_vars

TypeOK ==
    /\ pc \in {"new", "init_failed", "ready", "loop", "step", "after_loop",
               "done", "failed"}
    /\ cleanup_calls \in 0 .. 1

\* no filtered row is masked entirely
SomeUnmasked ==
    pc \in {"loop", "after_loop"} /\ i > 0 =>
        \A r \in 1 .. Len(last.logits) : Unmasked(last.logits[r]) # {}

\* ------------------------------------------- two decoders on the same logits
\* BeamSearchDecoder with beam_size = 1 (in tokens, sum_logprobs and
\* finished_sequences) and GreedyDecoder with temperature 0 (in twin), each
\* driven by the statements of _main_loop and of run, on the same logits at
\* every step.  No filter is applied: the logits are the distributions.
EquivOptions ==
    {[BaseOptions EXCEPT !.beam_size = 1, !.n_audio = n, !.sample_len = k,
                         !.without_timestamps = TRUE] :
        n \in 1 .. MaxAudio, k \in 1 .. MaxSampleLen}

InitEquiv ==
    /\ options \in EquivOptions
    /\ pc = "loop"
    /\ exc = "none"
    /\ tokens = [r \in 1 .. options.n_audio |-> InitialTokens(options)]
    /\ sum_logprobs = [r \in 1 .. options.n_audio |-> 0]
    /\ twin = [tokens |-> [r \in 1 .. options.n_audio |-> InitialTokens(options)],
               sum_logprobs |-> [r \in 1 .. options.n_audio |-> 0],
               left |-> FALSE, beam_left |-> FALSE,
               final |-> <<>>, exc |-> "none", result |-> <<>>]
    /\ logits = <<>>
    /\ finished_sequences = <<>>
    /\ kv_cache = <<>>
    /\ hooks = FALSE
    /\ i = 0
    /\ cleanup_calls = 0
    /\ result = <<>>
    /\ last = EmptyLast
    /\ final = <<>>
    /\ calls = NoCalls
    /\ runs = 0

\* one iteration of each decoder's sample loop that has not been left
EquivStep ==
    /\ pc = "loop"
    /\ \E c \in 0 .. (Len(options.net) - 1) :
       \E lg \in {Eager([r \in 1 .. options.n_audio |->
                           NetLogits(c, r, <<>>, options.net)])} :
       \E b \in {BeamUpdate(tokens, lg, sum_logprobs, finished_sequences,
                            options.beam_size,
                            MaxCandidates(options.beam_size, options.patience2))} :
       \E g \in {GreedyUpdate(twin.tokens, lg, twin.sum_logprobs, 0, 0)} :
       \E bl \in {twin.beam_left \/ LoopExits(b.completed, b.tokens, options, i)} :
       \E gl \in {twin.left \/ LoopExits(g.completed, g.tokens, options, i)} :
          /\ logits' = lg
          /\ tokens' = IF twin.beam_left THEN tokens ELSE b.tokens
          /\ sum_logprobs' = IF twin.beam_left THEN sum_logprobs ELSE b.sum_logprobs
          /\ finished_sequences' = IF twin.beam_left THEN finished_sequences
                                   ELSE b.finished_sequences
          /\ twin' = [twin EXCEPT
                        !.tokens = IF twin.left THEN @ ELSE g.tokens,
                        !.sum_logprobs = IF twin.left THEN @ ELSE g.sum_logprobs,
                        !.left = gl, !.beam_left = bl]
          /\ i' = i + 1
          /\ pc' = IF bl /\ gl THEN "after_loop" ELSE "loop"
    /\ UNCHANGED <<options, exc, cacheVars, result, last, final, calls, runs>>

\* each decoder's finalize, the trimming and the ranking of run
EquivFinish ==
    /\ pc = "after_loop"
    /\ \E bf \in {Eager(BeamFinalize(tokens, sum_logprobs, finished_sequences,
                                     options.n_audio, NGroup(options),
                                     options.beam_size))} :
       \E gf \in {Eager(GreedyFinalize(twin.tokens, twin.sum_logprobs,
                                       options.n_audio, NGroup(options)))} :
       \E bc \in {Eager([a \in 1 .. options.n_audio |->
                           Trimmed(bf[a], SampleBegin(options), {})])} :
       \E gc \in {Eager([a \in 1 .. options.n_audio |->
                           Trimmed(gf[a], SampleBegin(options), {})])} :
          /\ finished_sequences' = bf
          /\ final' = bc
          /\ exc' = FinishError(options, bc)
          /\ result' = IF FinishError(options, bc) = "none"
                       THEN [a \in 1 .. options.n_audio |->
                               ResultOf(bc[a], options.length_penalty)]
                       ELSE <<>>
          /\ twin' = [twin EXCEPT
                        !.final = gc,
                        !.exc = FinishError(options, gc),
                        !.result = IF FinishError(options, gc) = "none"
                                   THEN [a \in 1 .. options.n_audio |->
                                           ResultOf(gc[a], options.length_penalty)]
                                   ELSE <<>>]
          /\ pc' = "done"
    /\ UNCHANGED <<options, tokens, sum_logprobs, logits, cacheVars, i, last,
                   calls, runs>>

NextEquiv ==
    \/ EquivStep
    \/ EquivFinish

SpecEquiv == InitEquiv /\ [][NextEquiv]_vars

\* ------------------------------------- two greedy runs on the same outputs
\* Two executions of the sample loop with GreedyDecoder (the first in tokens,
\* sum_logprobs and i, the second in twin), fed the same model output at every
\* step; each has a random generator of its own (d1, d2).
DetermOptions ==
    {[BaseOptions EXCEPT !.n_audio = n, !.without_timestamps = wt,
                         !.net = IF wt THEN <<1, 2, 3, 4, 8>> ELSE <<1, 4, 5, 6, 9>>] :
        n \in 1 .. MaxAudio, wt \in BOOLEAN}
    \cup {[BaseOptions EXCEPT !.temperature = 1, !.without_timestamps = wt,
                              !.net = IF wt THEN <<1, 2, 3, 4, 8>>
                                      ELSE <<1, 4, 5, 6, 9>>] :
            wt \in BOOLEAN}

InitDeterm ==
    /\ options \in DetermOptions
    /\ pc = "loop"
    /\ exc = "none"
    /\ tokens = [r \in 1 .. options.n_audio |-> InitialTokens(options)]
    /\ sum_logprobs = [r \in 1 .. options.n_audio |-> 0]
    /\ twin = [tokens |-> [r \in 1 .. options.n_audio |-> InitialTokens(options)],
               sum_logprobs |-> [r \in 1 .. options.n_audio |-> 0],
               i |-> 0, left |-> FALSE, first_left |-> FALSE]
    /\ logits = <<>>
    /\ finished_sequences = <<>>
    /\ kv_cache = <<>>
    /\ hooks = FALSE
    /\ i = 0
    /\ cleanup_calls = 0
    /\ result = <<>>
    /\ last = EmptyLast
    /\ final = <<>>
    /\ calls = NoCalls
    /\ runs = 0

\* one iteration of the sample loop in each execution that has not left it
DetermStep ==
    /\ pc = "loop"
    /\ \E c \in 0 .. (Len(options.net) - 1) : \E d1 \in 0 .. 1 : \E d2 \in 0 .. 1 :
       \E lg \in {Eager([r \in 1 .. options.n_audio |->
                           NetLogits(c, r, <<>>, options.net)])} :
       \E a \in {GreedyUpdate(tokens, ApplyFilters(lg, tokens, options),
                              sum_logprobs, options.temperature, d1)} :
       \E b \in {GreedyUpdate(twin.tokens, ApplyFilters(lg, twin.tokens, options),
                              twin.sum_logprobs, options.temperature, d2)} :
       \E al \in {twin.first_left \/ LoopExits(a.completed, a.tokens, options, i)} :
       \E bl \in {twin.left \/ LoopExits(b.completed, b.tokens, options, twin.i)} :
          /\ logits' = lg
          /\ tokens' = IF twin.first_left THEN tokens ELSE a.tokens
          /\ sum_logprobs' = IF twin.first_left THEN sum_logprobs ELSE a.sum_logprobs
          /\ i' = IF twin.first_left THEN i ELSE i + 1
          /\ twin' = [twin EXCEPT
                        !.tokens = IF twin.left THEN @ ELSE b.tokens,
                        !.sum_logprobs = IF twin.left THEN @ ELSE b.sum_logprobs,
                        !.i = IF twin.left THEN @ ELSE @ + 1,
                        !.left = bl, !.first_left = al]
          /\ pc' = IF al /\ bl THEN "done" ELSE "loop"
    /\ UNCHANGED <<options, exc, finished_sequences, cacheVars, result, last,
                   final, calls, runs>>

NextDeterm == DetermStep

SpecDeterm == InitDeterm /\ [][NextDeterm]_vars

\* ---------------------------------------------- the sample loop, scheduled
\* one task per decoder, with a context the tokens outgrow and with one the
\* step limit comes before; the interpreter runs every started call on
LoopOptions ==
    {[BaseOptions EXCEPT !.temperature = t, !.without_timestamps = wt,
                         !.n_ctx = c, !.n_audio = n] :
        t \in {0, 1}, wt \in BOOLEAN, c \in {5, 8}, n \in {1, MaxAudio}}
    \cup {[BaseOptions EXCEPT !.beam_size = MaxBeam, !.withlm = w, !.n_ctx = c,
                              !.without_timestamps = TRUE] :
            w \in BOOLEAN, c \in {5, 8}}
    \cup {[BaseOptions EXCEPT !.task = "lang_id"],
          [BaseOptions EXCEPT !.language = NoLanguage, !.multilingual = FALSE]}

InitLoop == InitWith(LoopOptions)

NextLoop == Next

SpecLoop == InitLoop /\ [][NextLoop]_vars /\ WF_vars(NextLoop)

\* ------------------------------------------- the initial tokens of a task
\* the longest prefix given to a task
MaxPrefix == 3

\* options.prefix as a list of token ids
PrefixValues == UNION {[1 .. n -> {blank, text_a}] : n \in 0 .. MaxPrefix}

\* every context size, sample length (unset, 0, below, at and above
\* n_ctx // 2) and prefix
InitialOptions ==
    {[BaseOptions EXCEPT !.n_ctx = c, !.sample_len = sl, !.prefix = px,
                         !.without_timestamps = wt] :
        c \in {4, 5, 8}, sl \in {None} \cup (0 .. (MaxSampleLen + 2)),
        px \in PrefixValues, wt \in BOOLEAN}

InitInitial == InitWith(InitialOptions)

\* construction, the start of run and the first forward pass
NextInitial == Construct \/ RunStart \/ Forward

SpecInitial == InitInitial /\ [][NextInitial]_vars

\* ------------------------------------------ several runs of one DecodingTask
\* the calls of run on one task
MaxRuns == 2

RunsOptions ==
    {[BaseOptions EXCEPT !.temperature = t, !.without_timestamps = TRUE] :
        t \in {0, 1}}
    \cup {[BaseOptions EXCEPT !.beam_size = MaxBeam, !.withlm = w,
                              !.without_timestamps = TRUE] : w \in BOOLEAN}
    \cup {[BaseOptions EXCEPT !.task = "lang_id"],
          [BaseOptions EXCEPT !.language = NoLanguage, !.multilingual = FALSE]}

InitRuns == InitWith(RunsOptions)

\* run is called again after it has returned or raised: the locals of the
\* earlier call are gone, the decoder and the inference object are as that
\* call left them; twin notes whether it left finished sequences
Reenter ==
    /\ pc \in {"done", "failed"}
    /\ runs < MaxRuns
    /\ pc' = "ready"
    /\ exc' = "none"
    /\ tokens' = <<>>
    /\ sum_logprobs' = <<>>
    /\ logits' = <<>>
    /\ i' = 0
    /\ result' = <<>>
    /\ last' = EmptyLast
    /\ final' = <<>>
    /\ twin' = [left |-> \E a \in 1 .. Len(finished_sequences) :
                            Len(finished_sequences[a]) >= 1]
    /\ calls' = [NoCalls EXCEPT !.constructed = calls.constructed]
    /\ UNCHANGED <<options, runs, finished_sequences, cacheVars>>

NextRuns == Next \/ Reenter

SpecRuns == InitRuns /\ [][NextRuns]_vars

\* ------------------------------------------- BeamSearchDecoder.update alone
\* update called by a caller of its own: beam_size rows per audio after
\* reset(), a cache whose row r holds r, and at every call a batch of any
\* row count
UpdateOptions ==
    {[BaseOptions EXCEPT !.beam_size = b, !.n_audio = n, !.patience2 = p,
                         !.without_timestamps = TRUE] :
        b \in 1 .. MaxBeam, n \in 1 .. MaxAudio, p \in {None, 3}}

\* the largest batch a caller passes
MaxRows == MaxAudio * MaxBeam + 1

InitUpdate ==
    /\ options \in UpdateOptions
    /\ pc = "call"
    /\ exc = "none"
    /\ tokens = [r \in 1 .. options.n_audio * options.beam_size |->
                    InitialTokens(options)]
    /\ sum_logprobs = [r \in 1 .. options.n_audio * options.beam_size |-> 0]
    /\ logits = <<>>
    /\ finished_sequences = DecoderReset(<<>>)
    /\ kv_cache = [r \in 1 .. options.n_audio * options.beam_size |-> <<r>>]
    /\ hooks = TRUE
    /\ i = 0
    /\ cleanup_calls = 0
    /\ result = <<>>
    /\ last = EmptyLast
    /\ final = <<>>
    /\ twin = <<>>
    /\ calls = NoCalls
    /\ runs = 0

\* the caller's batch of k rows: the current rows, repeated or cut
Batch(rows, k) == [r \in 1 .. k |-> rows[((r - 1) % Len(rows)) + 1]]

\* one call of update(tokens, logits, sum_logprobs): the batch is the
\* current one or one whose row count is no multiple of beam_size; twin
\* keeps the decoder state, the vector and the cache of the call's entry
UpdateCall ==
    /\ pc = "call"
    /\ i < SampleLen(options)
    /\ \E k \in {n \in 1 .. MaxRows :
                    n = Len(tokens) \/ n % options.beam_size # 0} :
       \E c \in 0 .. (Len(options.net) - 1) :
       \E toks \in {Batch(tokens, k)} :
       \E sums \in {Batch(sum_logprobs, k)} :
       \E lg \in {Eager([r \in 1 .. k |->
                           NetLogits(c, AudioOf(r, options), toks[r], options.net)])} :
          /\ twin' = [finished_sequences |-> finished_sequences,
                      sum_logprobs |-> sums, kv_cache |-> kv_cache]
          /\ logits' = lg
          /\ IF BeamUpdateError(toks, options.beam_size) # "none"
             THEN /\ exc' = BeamUpdateError(toks, options.beam_size)
                  /\ pc' = "raised"
                  /\ tokens' = toks
                  /\ sum_logprobs' = sums
                  /\ last' = [EmptyLast EXCEPT !.tokens = toks,
                                               !.sum_logprobs = sums,
                                               !.logits = lg]
                  /\ UNCHANGED <<finished_sequences, kv_cache, i, calls>>
             ELSE \E u \in {BeamUpdate(toks, lg, sums, finished_sequences,
                                       options.beam_size,
                                       MaxCandidates(options.beam_size,
                                                     options.patience2))} :
                  /\ exc' = "none"
                  /\ pc' = "call"
                  /\ tokens' = u.tokens
                  /\ sum_logprobs' = u.sum_logprobs
                  /\ finished_sequences' = u.finished_sequences
                  /\ kv_cache' = RearrangeKvCache(kv_cache, u.source_indices)
                  /\ last' = [tokens |-> toks, sum_logprobs |-> sums,
                              logits |-> lg, source_indices |-> u.source_indices,
                              candidates |-> u.candidates,
                              newly |-> u.newly,
                              completed |-> u.completed]
                  /\ i' = i + 1
                  /\ calls' = [calls EXCEPT !.update = @ + 1]
    /\ UNCHANGED <<options, runs, hooks, cleanup_calls, result, final>>

NextUpdate == UpdateCall

SpecUpdate == InitUpdate /\ [][NextUpdate]_vars

\* ------------------------------------------------------ the ranker alone
MaxRanked == 3

\* the candidates' cumulative log-probabilities and trimmed lengths
RankLogprobs == {NegInf} \cup ((0 - 3) .. 0)
RankLengths == 0 .. 2

RankCandidates ==
    {[seq |-> [k \in 1 .. n |-> text_a], score |-> lp] :
        n \in RankLengths, lp \in RankLogprobs}

InitRank ==
    /\ options \in {[BaseOptions EXCEPT !.length_penalty = p] : p \in {None, 0, 1}}
    /\ final \in {<<cands>> :
                    cands \in UNION {[1 .. n -> RankCandidates] :
                                        n \in 1 .. MaxRanked}}
    /\ pc = "rank"
    /\ exc = "none"
    /\ tokens = <<>>
    /\ sum_logprobs = <<>>
    /\ logits = <<>>
    /\ finished_sequences = <<>>
    /\ kv_cache = <<>>
    /\ hooks = FALSE
    /\ i = 0
    /\ cleanup_calls = 0
    /\ result = <<>>
    /\ last = EmptyLast
    /\ twin = <<>>
    /\ calls = NoCalls
    /\ runs = 0

\* MaximumLikelihoodRanker.rank on the candidates of every audio
Rank ==
    /\ pc = "rank"
    /\ \E raises \in {\E a \in 1 .. Len(final) :
                        RankRaises([k \in 1 .. Len(final[a]) |->
                                       Len(final[a][k].seq)],
                                   options.length_penalty)} :
          /\ exc' = IF raises THEN "ZeroDivisionError" ELSE "none"
          /\ pc' = IF raises THEN "failed" ELSE "ranked"
          /\ result' = IF raises THEN <<>>
                       ELSE [a \in 1 .. Len(final) |->
                               RankOne([k \in 1 .. Len(final[a]) |->
                                           final[a][k].score],
                                       [k \in 1 .. Len(final[a]) |->
                                           Len(final[a][k].seq)],
                                       options.length_penalty)]
    /\ UNCHANGED <<options, twin, runs, calls, tokens, sum_logprobs, logits,
                   finished_sequences, cacheVars, i, last, final>>

NextRank == Rank

SpecRank == InitRank /\ [][NextRank]_vars

\* ------------------------------------------------------------------ claims
\* the run entered _main_loop
EnteredLoop == sum_logprobs # <<>>

\* the run has passed decoder.finalize
Finalized == final # <<>>

\* run has ended, by return or by exception
RunEnded == pc \in {"done", "failed"}

\* C1 as stated: for BeamSearchDecoder the finished set of every audio has at
\* most max_candidates entries after every update and also after finalize.
C1_AtMostMaxCandidatesAlways ==
    DecoderKind(options) = "beam" =>
        \A a \in 1 .. Len(finished_sequences) :
            Len(finished_sequences[a])
                <= MaxCandidates(options.beam_size, options.patience2)

\* C1 amended: for BeamSearchDecoder the finished set of every audio has at
\* most max_candidates entries after every update; after finalize it has at
\* most max(max_candidates, beam_size) entries, because finalize pads a set
\* with fewer than beam_size entries up to beam_size.
C1_FinishedBounded ==
    DecoderKind(options) = "beam" =>
        \A a \in 1 .. Len(finished_sequences) :
            Len(finished_sequences[a])
                <= IF Finalized
                   THEN Max2(MaxCandidates(options.beam_size, options.patience2),
                             options.beam_size)
                   ELSE MaxCandidates(options.beam_size, options.patience2)

\* an update filled the set to max_candidates < beam_size and finalize padded it
C1_Witness ==
    /\ DecoderKind(options) = "beam"
    /\ Finalized
    /\ last.completed
    /\ \E a \in 1 .. Len(finished_sequences) :
          /\ Len(finished_sequences[a])
                > MaxCandidates(options.beam_size, options.patience2)
          /\ Len(finished_sequences[a]) = options.beam_size

\* C2: after every beam update and before the next forward pass, cache row r
\* holds exactly the history of batch row r without its newest token.
C2_CacheMatchesRows ==
    pc = "loop" /\ i > 0 /\ DecoderKind(options) \in {"beam", "beamlm"} =>
        /\ Len(kv_cache) = Len(tokens)
        /\ \A r \in 1 .. Len(tokens) : kv_cache[r] = Front(tokens[r])

\* an update kept a row that descends from a different row with another history
C2_Witness ==
    /\ pc = "loop"
    /\ i > 1
    /\ DecoderKind(options) = "beam"
    /\ \E k \in 1 .. Len(last.source_indices) :
          /\ last.source_indices[k] # k
          /\ last.tokens[last.source_indices[k]] # last.tokens[k]
          /\ kv_cache[k] = Front(tokens[k])

\* C3 as stated: run returns one result per input for every group size; the
\* shape assertion after the loop never fails.
C3_OneResultPerAudio ==
    /\ ~(pc = "failed" /\ exc = "AssertionError")
    /\ pc = "done" => Len(result) = options.n_audio

\* C4 as stated: every run calls cleanup_caching exactly once, on every path.
C4_CleanupOncePerRun == RunEnded => cleanup_calls = 1

\* C4 amended: a run that enters the sample loop calls cleanup_caching exactly
\* once, whether the loop ends normally or an exception is raised inside or
\* after it; a run that returns (language identification) or raises before
\* the sample loop does not call it.
C4_CleanupOncePerLoop ==
    /\ RunEnded => cleanup_calls = IF EnteredLoop THEN 1 ELSE 0
    /\ pc \in {"loop", "step"} => cleanup_calls = 0
    /\ pc = "after_loop" => cleanup_calls = 1

\* a run whose forward pass raised after at least one completed step
C4_Witness ==
    /\ pc = "failed"
    /\ exc = "ModelError"
    /\ EnteredLoop
    /\ i > 0
    /\ cleanup_calls = 1

\* C5: whenever _main_loop has been left (completion, step limit, context
\* overflow, or an exception of the forward pass, a filter or the update) the
\* cache is empty and the hooks are removed, and a failure carries its
\* exception to the caller.
C5_LoopExitReleases ==
    /\ EnteredLoop /\ pc \in {"after_loop", "done", "failed"} =>
          kv_cache = <<>> /\ ~hooks
    /\ pc = "failed" => exc # "none"

\* the update raised at a step after the first, when the cache held entries
C5_Witness ==
    /\ pc = "failed"
    /\ exc = "BackendError"
    /\ i > 0
    /\ logits # <<>>
    /\ kv_cache = <<>>
    /\ ~hooks

\* C6: beam search with beam_size = 1, patience unset and no length penalty
\* selects for every audio the token sequence that the greedy decoder with
\* temperature 0 selects on the same tie-free distributions, also when the
\* step limit is reached before any end-of-text; both runs end alike.
C6_BeamOneEqualsGreedy ==
    pc = "done" /\ twin # <<>> =>
        /\ exc = twin.exc
        /\ Len(final) = Len(twin.final)
        /\ \A a \in 1 .. Len(final) :
              /\ Len(final[a]) = 1
              /\ Len(twin.final[a]) = 1
              /\ final[a][1].seq = twin.final[a][1].seq
        /\ exc = "none" =>
              \A a \in 1 .. Len(result) : result[a].tokens = twin.result[a].tokens

\* two audios: one produced end-of-text after a text token, the other ran
\* into the step limit without any end-of-text
C6_Witness ==
    /\ pc = "done"
    /\ twin # <<>>
    /\ options.n_audio >= 2
    /\ \E a \in 1 .. Len(final) :
          /\ eot \notin Range(twin.tokens[a])
          /\ Len(final[a][1].seq) = SampleLen(options)
    /\ \E a \in 1 .. Len(final) :
          /\ eot \in Range(twin.tokens[a])
          /\ Len(final[a][1].seq) >= 1
          /\ final[a][1].seq = twin.final[a][1].seq

\* C7 as stated: the LM-fused decoder ranks each candidate token by the row's
\* cumulative log-probability plus acoustic_logprob + lm_alpha * lm_logprob +
\* lm_beta, lm_logprob being the scorer's incremental score of the token after
\* the row's sampled history (scores doubled: lm_beta2 = 2 * lm_beta).
C7_FusedScore ==
    DecoderKind(options) = "beamlm" =>
        \A a \in 1 .. Len(last.candidates) :
            \A k \in 1 .. Len(last.candidates[a]) :
                LET c == last.candidates[a][k]
                    row == last.tokens[c.src]
                    acoustic == LogSoftmax(last.logits[c.src])[Last(c.seq)]
                    lm == LMBaseScore(SubSeq(row, SampleBegin(options) + 1, Len(row)),
                                      Last(c.seq))
                IN acoustic # NegInf =>
                      2 * c.score
                         = 2 * (last.sum_logprobs[c.src] + acoustic + lm_alpha * lm)
                              + lm_beta2

\* the sampled tokens of a finalized candidate, the closing eot included
Sampled(full, o) == SubSeq(full, SampleBegin(o) + 1, Len(full))

\* C8 as stated: with timestamps enabled, no two consecutive sampled tokens of
\* an output sequence are both timestamps unless the second is immediately
\* followed by end-of-text.
C8_NoTimestampPairUnlessEot ==
    ~options.without_timestamps =>
        \A a \in 1 .. Len(final) : \A k \in 1 .. Len(final[a]) :
            LET s == Sampled(final[a][k].full, options)
            IN \A p \in 1 .. (Len(s) - 1) :
                  IsTimestamp(s[p]) /\ IsTimestamp(s[p + 1]) =>
                      p + 2 <= Len(s) /\ s[p + 2] = eot

\* C8 amended: with timestamps enabled, two consecutive timestamp tokens of an
\* output sequence are never followed by a third timestamp: the token after
\* the pair is a text token or end-of-text.
C8_NoTimestampTriple ==
    ~options.without_timestamps =>
        \A a \in 1 .. Len(final) : \A k \in 1 .. Len(final[a]) :
            LET s == Sampled(final[a][k].full, options)
            IN \A p \in 1 .. (Len(s) - 2) :
                  IsTimestamp(s[p]) /\ IsTimestamp(s[p + 1]) =>
                      ~IsTimestamp(s[p + 2])

\* an output sequence with a timestamp pair that a text token follows
C8_Witness ==
    /\ ~options.without_timestamps
    /\ \E a \in 1 .. Len(final) : \E k \in 1 .. Len(final[a]) :
          LET s == Sampled(final[a][k].full, options)
          IN \E p \in 1 .. (Len(s) - 2) :
                /\ IsTimestamp(s[p])
                /\ IsTimestamp(s[p + 1])
                /\ s[p + 2] < eot

\* C9: in every row the greedy decoder samples with timestamps enabled the
\* timestamps are non-decreasing, and the first timestamp after one or more
\* non-timestamp tokens is strictly greater than the timestamp before them.
C9_TimestampsMonotone ==
    DecoderKind(options) = "greedy" /\ ~options.without_timestamps =>
        \A r \in 1 .. Len(tokens) :
            LET s == Sampled(tokens[r], options)
            IN \A p \in 1 .. Len(s) : \A q \in (p + 1) .. Len(s) :
                  IsTimestamp(s[p]) /\ IsTimestamp(s[q]) =>
                      /\ s[p] <= s[q]
                      /\ (q > p + 1 /\ \A m \in (p + 1) .. (q - 1) : ~IsTimestamp(s[m]))
                            => s[p] < s[q]

\* a greedy row with a closed segment and a timestamp that opens the next one
C9_Witness ==
    /\ DecoderKind(options) = "greedy"
    /\ ~options.without_timestamps
    /\ \E r \in 1 .. Len(tokens) :
          LET s == Sampled(tokens[r], options)
          IN /\ Len(s) >= 4
             /\ IsTimestamp(s[1])
             /\ s[2] < eot
             /\ IsTimestamp(s[3])
             /\ IsTimestamp(s[4])
             /\ s[1] < s[3]
             /\ s[3] <= s[4]

\* score(j) <= score(k) for two candidates of one audio, by the formulas of
\* the claim: logprob / length, or logprob / ((5 + length) / 6) ^ p
ClaimScoreLeq(cands, j, k, p) ==
    IF cands[j].score = NegInf THEN TRUE
    ELSE IF cands[k].score = NegInf THEN FALSE
    ELSE IF p = None
         THEN cands[j].score * Len(cands[k].seq) <= cands[k].score * Len(cands[j].seq)
    ELSE IF p = 0 THEN cands[j].score <= cands[k].score
    ELSE cands[j].score * (5 + Len(cands[k].seq))
            <= cands[k].score * (5 + Len(cands[j].seq))

\* C10: for candidates of positive length rank returns the index of a
\* candidate of maximal score, and the smallest such index.
C10_RankIsFirstArgMax ==
    pc = "ranked" =>
        \A a \in 1 .. Len(final) :
            (\A k \in 1 .. Len(final[a]) : Len(final[a][k].seq) > 0) =>
                /\ result[a] \in 1 .. Len(final[a])
                /\ \A j \in 1 .. Len(final[a]) :
                      /\ ClaimScoreLeq(final[a], j, result[a], options.length_penalty)
                      /\ j < result[a] =>
                            ~ClaimScoreLeq(final[a], result[a], j,
                                           options.length_penalty)

\* three candidates of different lengths: the last two tie at the maximum under
\* logprob / length, and the first of the two is returned
C10_Witness ==
    /\ pc = "ranked"
    /\ options.length_penalty = None
    /\ Len(final[1]) = 3
    /\ result[1] = 2
    /\ Len(final[1][2].seq) # Len(final[1][3].seq)
    /\ final[1][2].score < 0
    /\ final[1][1].score # NegInf
    /\ \A k \in 1 .. 3 : Len(final[1][k].seq) > 0
    /\ ClaimScoreLeq(final[1], 3, 2, None)
    /\ ClaimScoreLeq(final[1], 2, 3, None)

\* C11: with temperature 0 and no beam search two executions fed the same
\* per-step model outputs have identical token sequences and cumulative
\* log-probabilities after every step, and leave the loop at the same step.
C11_GreedyDeterministic ==
    options.temperature = 0 =>
        /\ tokens = twin.tokens
        /\ sum_logprobs = twin.sum_logprobs
        /\ i = twin.i
        /\ twin.first_left = twin.left

\* both executions stopped on completion, before the step limit, after two
\* or more steps
C11_Witness ==
    /\ options.temperature = 0
    /\ pc = "done"
    /\ i >= 2
    /\ i < SampleLen(options)
    /\ twin.i = i
    /\ tokens = twin.tokens
    /\ \E r \in 1 .. Len(tokens) : Len(Trim(Append(tokens[r], eot),
                                            SampleBegin(options))) >= 1

\* C12: DecodingTask.__init__ raises ValueError exactly for the four defects
\* (beam_size and best_of both set; best_of set with temperature 0; patience
\* set without beam_size; length_penalty outside [0, 1]); when it does, no
\* inference object, ranker, decoder or filter has been constructed and no
\* model call has been made; options with none of the defects, those with
\* neither beam_size nor best_of included, raise no ValueError
C12_Defect ==
    \/ options.beam_size # None /\ options.best_of # None
    \/ options.best_of # None /\ options.temperature = 0
    \/ options.patience2 # None /\ options.beam_size = None
    \/ options.length_penalty # None
            /\ (options.length_penalty < 0 \/ options.length_penalty > 1)

C12_InvalidOptionsRejectedFirst ==
    pc # "new" =>
        /\ C12_Defect =>
               /\ pc = "init_failed"
               /\ exc = "ValueError"
               /\ calls = NoCalls
        /\ ~C12_Defect => ~(pc = "init_failed" /\ exc = "ValueError")
        /\ (~C12_Defect /\ options.beam_size = None) => pc # "init_failed"

C12_Witness ==
    /\ pc = "init_failed"
    /\ exc = "ValueError"
    /\ options.patience2 # None
    /\ options.beam_size = None
    /\ options.best_of = None
    /\ options.length_penalty = None
    /\ calls.constructed = {}

C12_WitnessAccepted ==
    /\ pc = "ready"
    /\ options.beam_size = None
    /\ options.best_of = None
    /\ calls.constructed = {"inference", "ranker", "decoder", "filters"}
\* C13: when language detection is requested of a model without language
\* tokens, the ValueError is raised before any model call: no encoder pass
\* and no decoder pass has been issued
C13_DetectionErrorBeforeModelCalls ==
    (pc = "failed" /\ exc = "ValueError" /\ DetectionFails(options)) =>
        /\ calls.encoder = 0
        /\ calls.detect = 0
        /\ calls.logits = 0
\* C14: BeamSearchDecoder.update raises whenever the batch's row count is no
\* exact multiple of beam_size, and then the finished-sequence sets, the
\* cumulative log-probability vector and the KV cache are those of the
\* call's entry (the cache is not rearranged)
C14_BadBatchRaisesAndChangesNothing ==
    (last # EmptyLast /\ Len(last.tokens) % options.beam_size # 0) =>
        /\ exc = "ValueError"
        /\ pc = "raised"
        /\ finished_sequences = twin.finished_sequences
        /\ sum_logprobs = twin.sum_logprobs
        /\ kv_cache = twin.kv_cache

C14_Witness ==
    /\ pc = "raised"
    /\ exc = "ValueError"
    /\ Len(last.tokens) % options.beam_size # 0
    /\ i >= 2
    /\ \E a \in 1 .. Len(finished_sequences) : Len(finished_sequences[a]) >= 1
    /\ \E r \in 1 .. Len(kv_cache) : kv_cache[r] # <<r>>
    /\ \E r \in 1 .. Len(sum_logprobs) : sum_logprobs[r] # 0
\* C15: for every beam_size >= 1 and every configured patience (unset
\* meaning 1.0), a constructed beam decoder has max_candidates =
\* round(beam_size * patience), and construction fails whenever that value
\* is not > 0, a patience of 0 included
C15_Rounded ==
    RoundHalfEven(options.beam_size
                    * (IF options.patience2 = None THEN 2 ELSE options.patience2))

C15_MaxCandidatesRoundedAndPositive ==
    (pc # "new" /\ options.beam_size # None /\ VerifyOptions(options) = "none") =>
        /\ "decoder" \in calls.constructed =>
               MaxCandidates(options.beam_size, options.patience2) = C15_Rounded
        /\ ~(C15_Rounded > 0) =>
               /\ pc = "init_failed"
               /\ "decoder" \notin calls.constructed
\* C16: greedy decoding at temperature 0: every step appends to each row the
\* arg-max token of its logits (end-of-text once the row has ended), and the
\* result token list of a row is its sampled tokens up to, not including,
\* the first end-of-text: it holds no end-of-text and nothing sampled after
C16_BeforeEot(sampled) ==
    SubSeq(sampled, 1,
           Cardinality({k \in 1 .. Len(sampled) :
                           \A m \in 1 .. k : sampled[m] # eot}))

C16_GreedyResultIsArgMaxPrefix ==
    (DecoderKind(options) = "greedy" /\ options.temperature = 0
        /\ options.task # "lang_id") =>
        /\ (pc \in {"loop", "after_loop", "done"} /\ i > 0) =>
               \A r \in 1 .. Len(tokens) :
                  tokens[r] = Append(last.tokens[r],
                                     IF Last(last.tokens[r]) = eot THEN eot
                                     ELSE ArgMax(last.logits[r]))
        /\ pc = "done" =>
               /\ Len(result) = Len(tokens)
               /\ \A r \in 1 .. Len(result) :
                     /\ result[r].tokens = C16_BeforeEot(Sampled(tokens[r], options))
                     /\ \A k \in 1 .. Len(result[r].tokens) :
                           result[r].tokens[k] # eot

C16_Witness ==
    /\ DecoderKind(options) = "greedy"
    /\ options.temperature = 0
    /\ pc = "done"
    /\ \E r \in 1 .. Len(result) :
          /\ Len(result[r].tokens) >= 1
          /\ Len(Sampled(tokens[r], options)) >= Len(result[r].tokens) + 2
\* C17: BeamSearchDecoder.update reports completion exactly when, after its
\* merge, the finished-sequence set of every audio has reached
\* max_candidates; the sample loop, which stops on completion, on the step
\* limit or on a full context, has not stopped on completion while one
\* audio's set is below max_candidates
C17_Full(a) ==
    Len(finished_sequences[a])
        >= MaxCandidates(options.beam_size, options.patience2)

C17_CompletedIffEveryAudioFull ==
    (DecoderKind(options) = "beam" /\ pc \in {"loop", "step", "after_loop"}
        /\ i > 0) =>
        /\ Len(finished_sequences) = options.n_audio
        /\ last.completed <=> \A a \in 1 .. options.n_audio : C17_Full(a)
        /\ (\E a \in 1 .. options.n_audio : ~C17_Full(a)) =>
               \/ pc \in {"loop", "step"}
               \/ i >= SampleLen(options)
               \/ \E r \in 1 .. Len(tokens) : Len(tokens[r]) > options.n_ctx
        /\ (\A a \in 1 .. options.n_audio : C17_Full(a)) => pc = "after_loop"

C17_Witness ==
    /\ DecoderKind(options) = "beam"
    /\ options.n_audio >= 2
    /\ pc = "loop"
    /\ i > 0
    /\ \E a \in 1 .. options.n_audio : C17_Full(a)
    /\ \E a \in 1 .. options.n_audio : ~C17_Full(a)
\* C18: with suppress_blank the logits the greedy decoder receives at the
\* first sampled position have the space token and end-of-text at negative
\* infinity, so the first sampled token of every row is not end-of-text,
\* whatever the model's logits; at every later position, and without
\* suppress_blank, the two logits are the model's (without timestamps, where
\* no other filter touches them)
C18_BlankSuppressedAtFirstPositionOnly ==
    (DecoderKind(options) = "greedy" /\ pc \in {"loop", "after_loop"} /\ i > 0) =>
        \A r \in 1 .. Len(tokens) :
           /\ (options.suppress_blank /\ i = 1) =>
                  /\ Len(last.tokens[r]) = SampleBegin(options)
                  /\ last.logits[r][blank] = NegInf
                  /\ last.logits[r][eot] = NegInf
                  /\ Last(tokens[r]) # eot
                  /\ Last(tokens[r]) # blank
           /\ (options.without_timestamps /\ (i > 1 \/ ~options.suppress_blank)) =>
                  /\ last.logits[r][blank] = logits[r][blank]
                  /\ last.logits[r][eot] = logits[r][eot]

C18_Witness ==
    /\ DecoderKind(options) = "greedy"
    /\ options.suppress_blank
    /\ pc = "loop"
    /\ i = 1
    /\ \E r \in 1 .. Len(tokens) :
          /\ ArgMax(logits[r]) = eot
          /\ last.logits[r][eot] = NegInf
          /\ Last(tokens[r]) \notin {eot, blank}

C18_WitnessLater ==
    /\ DecoderKind(options) = "greedy"
    /\ options.suppress_blank
    /\ options.without_timestamps
    /\ i > 1
    /\ pc \in {"loop", "after_loop"}
    /\ \E r \in 1 .. Len(tokens) :
          /\ ArgMax(logits[r]) = eot
          /\ Last(last.tokens[r]) # eot
          /\ Last(tokens[r]) = eot
\* C19: in every sequence of run calls on one DecodingTask, each of which
\* returns or raises at any point, every run comes to its first forward
\* pass with no finished sequence left over from an earlier run, an empty
\* KV cache and no hook installed
C19_RunStartsClean ==
    (pc = "loop" /\ i = 0) =>
        /\ finished_sequences = <<>>
        /\ kv_cache = <<>>
        /\ ~hooks

C19_Witness ==
    /\ runs = MaxRuns
    /\ pc = "loop"
    /\ i = 0
    /\ twin.left
    /\ finished_sequences = <<>>
\* C20: when the task is language identification, run returns one result
\* per audio with the detected language and its probability distribution,
\* and between entry and return it calls neither inference.logits nor a
\* logit filter nor decoder.update nor decoder.finalize nor the ranker
C20_LangIdBypassesLoop ==
    (options.task = "lang_id" /\ pc \notin {"new", "ready"}) =>
        /\ calls.logits = 0
        /\ calls.filters = 0
        /\ calls.update = 0
        /\ calls.finalize = 0
        /\ calls.rank = 0
        /\ pc \in {"done", "failed"}
        /\ pc = "done" =>
               /\ Len(result) = options.n_audio
               /\ \A a \in 1 .. Len(result) :
                     /\ result[a].has_probs
                     /\ result[a].tokens = <<>>
               /\ calls.detect = 1

C20_Witness ==
    /\ options.task = "lang_id"
    /\ options.n_audio >= 2
    /\ pc = "done"
    /\ Len(result) = options.n_audio
    /\ calls.detect = 1
    /\ calls.encoder = 1
\* C21: the sample loop always terminates: it makes at most sample_len
\* iterations, each with one forward pass, then the filters in the order
\* blank suppression, token suppression, timestamp rules, then one decoder
\* update; it stops after the first iteration in which the decoder reports
\* completion or the token length exceeds n_ctx, or when sample_len
\* iterations are done, and on no other condition
C21_TooLong == \E r \in 1 .. Len(tokens) : Len(tokens[r]) > options.n_ctx

C21_Filtered(r) ==
    LET blanked == IF options.suppress_blank
                   THEN SuppressBlankRow(logits[r], Len(last.tokens[r]),
                                         SampleBegin(options))
                   ELSE logits[r]
        suppressed == IF SuppressInstalled(options)
                      THEN SuppressTokensRow(blanked, GetSuppressTokens(options))
                      ELSE blanked
    IN IF options.without_timestamps THEN suppressed
       ELSE ApplyTimestampRulesRow(suppressed, last.tokens[r], SampleBegin(options),
                                   MaxInitialTimestampIndex(options))

C21_LoopBounded ==
    pc \in {"loop", "step", "after_loop"} =>
        /\ i <= SampleLen(options)
        /\ calls.logits = (IF pc = "step" THEN i + 1 ELSE i)
        /\ calls.filters = i
        /\ calls.update = i
        /\ pc = "after_loop" =>
               \/ last.completed
               \/ C21_TooLong
               \/ i = SampleLen(options)
        /\ pc \in {"loop", "step"} =>
               /\ i < SampleLen(options)
               /\ i > 0 => ~last.completed /\ ~C21_TooLong
        /\ (pc \in {"loop", "after_loop"} /\ i > 0) =>
               \A r \in 1 .. Len(last.tokens) : last.logits[r] = C21_Filtered(r)

C21_LoopTerminatesWithinBound ==
    /\ []C21_LoopBounded
    /\ (pc = "loop") ~> (pc \in {"after_loop", "failed"})

C21_Witness ==
    /\ pc = "after_loop"
    /\ last.completed
    /\ ~C21_TooLong
    /\ i >= 2
    /\ i < SampleLen(options)

C21_WitnessContext ==
    /\ pc = "after_loop"
    /\ ~last.completed
    /\ C21_TooLong
    /\ i < SampleLen(options)
\* C22: with a vocabulary of at least beam_size + 1 tokens, every update of
\* BeamSearchDecoder keeps exactly beam_size unfinished sequences per audio:
\* the batch it returns has n_audio * beam_size rows, the rows of group a
\* are rows (a - 1) * beam_size + 1 .. a * beam_size, none of them ends in
\* end-of-text, and the source index of every kept row lies in the row
\* range of the same group
C22_GroupOf(r) == ((r - 1) \div options.beam_size) + 1

C22_BeamSizeRowsPerGroup ==
    (DecoderKind(options) = "beam" /\ pc \in {"loop", "after_loop"} /\ i > 0
        /\ VocabSize >= options.beam_size + 1) =>
        /\ Len(tokens) = options.n_audio * options.beam_size
        /\ Len(last.source_indices) = Len(tokens)
        /\ Len(sum_logprobs) = Len(tokens)
        /\ \A r \in 1 .. Len(tokens) :
              /\ Last(tokens[r]) # eot
              /\ last.source_indices[r] \in 1 .. Len(last.tokens)
              /\ C22_GroupOf(last.source_indices[r]) = C22_GroupOf(r)
              /\ SubSeq(tokens[r], 1, Len(tokens[r]) - 1)
                    = last.tokens[last.source_indices[r]]

C22_Witness ==
    /\ DecoderKind(options) = "beam"
    /\ options.n_audio >= 2
    /\ options.beam_size >= 2
    /\ pc = "loop"
    /\ i >= 2
    /\ \E r \in 1 .. Len(tokens) : last.source_indices[r] # r
    /\ \E a \in 1 .. Len(last.candidates) :
          \E k \in 1 .. Len(last.candidates[a]) :
             Last(last.candidates[a][k].seq) = eot
\* C23: after every update of BeamSearchDecoder the cumulative
\* log-probability at row r is the one its source row had when the step
\* began plus the log-probability of the token appended to it: the writes
\* into the vector during the selection of one group change no value that
\* the step reads later, for that group or another
C23_SumsFollowSources ==
    (DecoderKind(options) = "beam" /\ pc \in {"loop", "after_loop"} /\ i > 0) =>
        \A r \in 1 .. Len(tokens) :
           sum_logprobs[r] =
              AddLP(last.sum_logprobs[last.source_indices[r]],
                    LogSoftmax(last.logits[last.source_indices[r]])[Last(tokens[r])])

C23_Witness ==
    /\ DecoderKind(options) = "beam"
    /\ options.n_audio >= 2
    /\ options.beam_size >= 2
    /\ pc = "loop"
    /\ i >= 2
    /\ \E r \in 1 .. Len(tokens) :
          /\ last.source_indices[r] < r
          /\ last.sum_logprobs[last.source_indices[r]] # last.sum_logprobs[r]
          /\ sum_logprobs[last.source_indices[r]]
                # last.sum_logprobs[last.source_indices[r]]
\* C24: in every update of BeamSearchDecoder and for every group, the kept
\* rows are the beam_size highest-scoring candidates that do not end in
\* end-of-text, stored in non-increasing score order, and a candidate that
\* ends in end-of-text is set aside as newly finished exactly when it
\* precedes the beam_size-th kept candidate in the descending order of the
\* scores (equal scores in the order the candidates were entered)
C24_Rows(a) == ((a - 1) * options.beam_size + 1) .. (a * options.beam_size)

C24_Index(a, seq) ==
    CHOOSE k \in 1 .. Len(last.candidates[a]) : last.candidates[a][k].seq = seq

C24_Precedes(a, j, k) ==
    \/ last.candidates[a][j].score > last.candidates[a][k].score
    \/ /\ last.candidates[a][j].score = last.candidates[a][k].score
       /\ j < k

C24_KeptAreBestUnfinished ==
    (DecoderKind(options) = "beam" /\ pc \in {"loop", "after_loop"} /\ i > 0) =>
        \A a \in 1 .. options.n_audio :
           LET cands == last.candidates[a]
               lastKept == C24_Index(a, tokens[a * options.beam_size])
           IN /\ \A r \in C24_Rows(a) :
                    \E k \in 1 .. Len(cands) :
                       /\ cands[k].seq = tokens[r]
                       /\ cands[k].score = sum_logprobs[r]
                       /\ Last(cands[k].seq) # eot
              /\ \A r \in C24_Rows(a) :
                    (r + 1) \in C24_Rows(a) => sum_logprobs[r] >= sum_logprobs[r + 1]
              /\ \A k \in 1 .. Len(cands) :
                    (Last(cands[k].seq) # eot
                        /\ \A r \in C24_Rows(a) : tokens[r] # cands[k].seq)
                    => cands[k].score <= sum_logprobs[a * options.beam_size]
              /\ \A k \in 1 .. Len(cands) :
                    Last(cands[k].seq) = eot =>
                       ((\E n \in 1 .. Len(last.newly[a]) :
                            last.newly[a][n].seq = cands[k].seq)
                        <=> C24_Precedes(a, k, lastKept))
              /\ \A n \in 1 .. Len(last.newly[a]) :
                    Last(last.newly[a][n].seq) = eot

C24_Witness ==
    /\ DecoderKind(options) = "beam"
    /\ options.beam_size >= 2
    /\ pc = "loop"
    /\ i >= 2
    /\ \E a \in 1 .. options.n_audio :
          /\ Len(last.newly[a]) >= 1
          /\ \E k \in 1 .. Len(last.candidates[a]) :
                /\ Last(last.candidates[a][k].seq) = eot
                /\ \A n \in 1 .. Len(last.newly[a]) :
                      last.newly[a][n].seq # last.candidates[a][k].seq
\* C25: the candidates of a group are deduplicated by exact token sequence:
\* rows with identical prefixes that produce the same extended sequence
\* leave one candidate (beam_size + 1 candidates when all rows of the group
\* are equal), and after every update no two rows of one group hold the
\* same token sequence
C25_GroupRows(a) == ((a - 1) * options.beam_size + 1) .. (a * options.beam_size)

C25_NoDuplicateInGroup ==
    (DecoderKind(options) = "beam" /\ pc \in {"loop", "after_loop"} /\ i > 0) =>
        \A a \in 1 .. options.n_audio :
           /\ \A j, k \in 1 .. Len(last.candidates[a]) :
                 last.candidates[a][j].seq = last.candidates[a][k].seq => j = k
           /\ (\A q, r \in C25_GroupRows(a) : last.tokens[q] = last.tokens[r])
                 => Len(last.candidates[a]) = options.beam_size + 1
           /\ \A q, r \in C25_GroupRows(a) : tokens[q] = tokens[r] => q = r

C25_Witness ==
    /\ DecoderKind(options) = "beam"
    /\ options.beam_size >= 2
    /\ pc = "loop"
    /\ i = 1
    /\ \A a \in 1 .. options.n_audio :
          /\ \A q, r \in C25_GroupRows(a) : last.tokens[q] = last.tokens[r]
          /\ Len(last.candidates[a]) = options.beam_size + 1
          /\ \A q, r \in C25_GroupRows(a) : tokens[q] = tokens[r] => q = r
\* C26: per step and per audio the newly finished sequences enter the
\* finished-sequence set in descending-score order until the set holds
\* max_candidates entries; an entry once present is never removed and its
\* score is never changed, by a later update or by finalize, so the size of
\* the set does not decrease during a run
C26_Entered(prev, new, max_candidates) ==
    LET room == IF Len(prev) >= max_candidates THEN 0
                ELSE max_candidates - Len(prev)
        m == IF Len(new) <= room THEN Len(new) ELSE room
    IN prev \o [k \in 1 .. m |-> [seq |-> new[k].seq, score |-> new[k].score]]

C26_Step ==
    DecoderKind(options) = "beam" =>
        /\ (pc = "step" /\ pc' \in {"loop", "after_loop"}) =>
               \A a \in 1 .. options.n_audio :
                  /\ \A k \in 1 .. (Len(last'.newly[a]) - 1) :
                        last'.newly[a][k].score >= last'.newly[a][k + 1].score
                  /\ finished_sequences'[a] =
                        C26_Entered(IF finished_sequences = <<>> THEN <<>>
                                    ELSE finished_sequences[a],
                                    last'.newly[a],
                                    MaxCandidates(options.beam_size,
                                                  options.patience2))
        /\ finished_sequences # <<>> =>
               /\ Len(finished_sequences') = Len(finished_sequences)
               /\ \A a \in 1 .. Len(finished_sequences) :
                     /\ Len(finished_sequences'[a]) >= Len(finished_sequences[a])
                     /\ \A k \in 1 .. Len(finished_sequences[a]) :
                           \E j \in 1 .. Len(finished_sequences'[a]) :
                              /\ finished_sequences'[a][j].seq
                                    = finished_sequences[a][k].seq
                              /\ finished_sequences'[a][j].score
                                    = finished_sequences[a][k].score

C26_FinishedSetOnlyGrows == [][C26_Step]_vars

C26_Witness ==
    /\ DecoderKind(options) = "beam"
    /\ pc = "done"
    /\ \E a \in 1 .. Len(finished_sequences) :
          /\ Len(finished_sequences[a]) >= 2
          /\ Len(finished_sequences[a][1].seq) < Len(finished_sequences[a][2].seq)
          /\ \E k \in 1 .. Len(finished_sequences[a]) :
                Len(finished_sequences[a][k].seq) = Len(tokens[1]) + 1
\* C27: BeamSearchDecoder.finalize extends the finished set of every audio
\* that has fewer than beam_size entries with the audio's unfinished rows,
\* best cumulative score first, each with end-of-text appended and with its
\* cumulative score, until the set has beam_size entries; a set that has
\* beam_size entries or more is returned as it is, and every audio ends
\* with at least one candidate
C27_RowsOf(a) == ((a - 1) * options.beam_size + 1) .. (a * options.beam_size)

C27_Padded(prev, now, a) ==
    /\ Len(now) = options.beam_size
    /\ SubSeq(now, 1, Len(prev)) = prev
    /\ \A k \in (Len(prev) + 1) .. Len(now) :
          /\ \E r \in C27_RowsOf(a) :
                /\ now[k].seq = Append(tokens[r], eot)
                /\ now[k].score = sum_logprobs[r]
          /\ k < Len(now) => now[k].score >= now[k + 1].score
    /\ \A r \in C27_RowsOf(a) :
          (\A k \in 1 .. Len(now) : now[k].seq # Append(tokens[r], eot))
          => sum_logprobs[r] <= now[Len(now)].score

C27_Step ==
    (DecoderKind(options) = "beam" /\ pc = "after_loop"
        /\ calls'.finalize = calls.finalize + 1) =>
        /\ Len(finished_sequences') = options.n_audio
        /\ \A a \in 1 .. options.n_audio :
              /\ Len(finished_sequences[a]) >= options.beam_size =>
                     finished_sequences'[a] = finished_sequences[a]
              /\ Len(finished_sequences[a]) < options.beam_size =>
                     C27_Padded(finished_sequences[a], finished_sequences'[a], a)
              /\ Len(finished_sequences'[a]) >= 1

C27_FinalizePadsToBeamSize == [][C27_Step]_vars

C27_Witness ==
    /\ DecoderKind(options) = "beam"
    /\ options.beam_size >= 2
    /\ pc = "done"
    /\ calls.finalize = 1
    /\ Len(finished_sequences[1]) = options.beam_size
    /\ Len(finished_sequences[1][1].seq) <= Len(tokens[1])
    /\ \E r \in 1 .. Len(tokens) :
          finished_sequences[1][options.beam_size].seq = Append(tokens[r], eot)

C27_WitnessUnchanged ==
    /\ DecoderKind(options) = "beam"
    /\ options.beam_size >= 2
    /\ pc = "done"
    /\ calls.finalize = 1
    /\ Len(finished_sequences[1]) > options.beam_size
\* C28: in GreedyDecoder.update a row whose last token is end-of-text gets
\* end-of-text appended again, whatever token was selected for it, and its
\* cumulative log-probability is left as it was; update reports completion
\* exactly when the newest token of every row is end-of-text
C28_EndedRowsFrozen ==
    (DecoderKind(options) = "greedy" /\ pc \in {"loop", "after_loop"} /\ i > 0) =>
        /\ \A r \in 1 .. Len(tokens) :
              Last(last.tokens[r]) = eot =>
                 /\ tokens[r] = Append(last.tokens[r], eot)
                 /\ sum_logprobs[r] = last.sum_logprobs[r]
        /\ last.completed <=> \A r \in 1 .. Len(tokens) : Last(tokens[r]) = eot

C28_Witness ==
    /\ DecoderKind(options) = "greedy"
    /\ pc = "loop"
    /\ i >= 2
    /\ ~last.completed
    /\ \E r \in 1 .. Len(tokens) :
          /\ Last(last.tokens[r]) = eot
          /\ ArgMax(last.logits[r]) # eot
          /\ Last(tokens[r]) = eot
\* C29: GreedyDecoder.finalize appends one end-of-text token to exactly the
\* rows that lack a trailing end-of-text; a row that ends in end-of-text is
\* returned with its length unchanged
C29_Row(a, g) == tokens[(a - 1) * NGroup(options) + g]

C29_PadsOnlyRowsLackingEot ==
    (DecoderKind(options) = "greedy" /\ Finalized) =>
        \A a \in 1 .. Len(final) : \A g \in 1 .. Len(final[a]) :
           final[a][g].full = (IF Last(C29_Row(a, g)) = eot THEN C29_Row(a, g)
                               ELSE Append(C29_Row(a, g), eot))

\* C29 as the code has it: GreedyDecoder.finalize appends one end-of-text
\* token to every row, so that every returned row ends in end-of-text and
\* is one token longer, the rows that ended in end-of-text included
C29_PadsEveryRow ==
    (DecoderKind(options) = "greedy" /\ Finalized) =>
        /\ Len(final) = options.n_audio
        /\ \A a \in 1 .. Len(final) :
              /\ Len(final[a]) = NGroup(options)
              /\ \A g \in 1 .. Len(final[a]) :
                    /\ final[a][g].full = Append(C29_Row(a, g), eot)
                    /\ final[a][g].fscore = sum_logprobs[(a - 1) * NGroup(options) + g]

C29_Witness ==
    /\ DecoderKind(options) = "greedy"
    /\ pc = "done"
    /\ Finalized
    /\ \E a \in 1 .. Len(final) : \E g \in 1 .. Len(final[a]) :
          /\ Last(C29_Row(a, g)) = eot
          /\ Len(final[a][g].full) = Len(C29_Row(a, g)) + 1
    /\ \E a \in 1 .. Len(final) : \E g \in 1 .. Len(final[a]) :
          Last(C29_Row(a, g)) # eot
\* C30: within one run the first forward pass receives the whole initial
\* token prefix and every later pass receives one token column, the newest,
\* so that after the k-th pass the positions fed into the cache of a row
\* are as many as the row has tokens at that pass; the cache and its hooks
\* are installed by the first call and by no later one
C30_Fed(r) == IF i = 0 THEN tokens[r] ELSE <<Last(tokens[r])>>

C30_Pass ==
    (pc = "loop" /\ pc' = "step") =>
        /\ Len(kv_cache') = Len(tokens)
        /\ \A r \in 1 .. Len(tokens) :
              /\ kv_cache'[r] = (IF kv_cache = <<>> THEN <<>> ELSE kv_cache[r])
                                    \o C30_Fed(r)
              /\ Len(kv_cache'[r]) = Len(tokens[r])
        /\ hooks'
        /\ i = 0 <=> ~hooks
        /\ i = 0 <=> kv_cache = <<>>

C30_OneColumnAfterFirstPass == [][C30_Pass]_vars

C30_Witness ==
    /\ pc = "step"
    /\ i >= 2
    /\ hooks
    /\ DecoderKind(options) = "beam"
    /\ options.beam_size >= 2
    /\ Len(kv_cache) = Len(tokens)
    /\ \A r \in 1 .. Len(tokens) : kv_cache[r] = tokens[r]
    /\ \E r \in 1 .. Len(tokens) : last.source_indices[r] # r
\* C31: the number of prefix tokens placed after the sot sequence is at most
\* n_ctx // 2 - sample_len, and no prefix token is placed when that bound is
\* not positive
C31_PrefixWithinBound ==
    pc = "loop" /\ i = 0 =>
        \A r \in 1 .. Len(tokens) :
            Len(tokens[r]) - Len(SotSequence(options))
                <= (IF MaxPrefixLen(options) > 0 THEN MaxPrefixLen(options) ELSE 0)
\* C40: no forward pass of the decoder is issued with a token sequence of more
\* than n_ctx positions
C40_PassWithinContext ==
    pc = "step" => \A r \in 1 .. Len(tokens) : Len(tokens[r]) <= options.n_ctx
\* C32: for every configuration of suppress_tokens, at every step the logits
\* handed to the decoder have the structural tokens and every user-listed
\* token at negative infinity
C32_Listed ==
    {options.suppress_tokens.list[k] : k \in 1 .. Len(options.suppress_tokens.list)}

C32_StructuralAndListedMasked ==
    (pc \in {"loop", "after_loop"} /\ i > 0) =>
        \A r \in 1 .. Len(last.logits) :
           \A t \in SuppressList \cup {u \in C32_Listed : u >= 0} :
              last.logits[r][t] = NegInf
\* C33: the pairing mask of ApplyTimestampRules, per row: after a timestamp
\* that follows a non-timestamp every text token (id below end-of-text) is
\* masked; after two timestamps, or after a single sampled token that is a
\* timestamp, every timestamp is masked; after a non-timestamp the pairing
\* rule masks nothing
C33_LastIsTimestamp(s) == Len(s) >= 1 /\ IsTimestamp(s[Len(s)])

C33_PenultimateIsText(s) == Len(s) >= 2 /\ ~IsTimestamp(s[Len(s) - 1])

C33_PairingMask ==
    (pc \in {"loop", "after_loop"} /\ i > 0 /\ ~options.without_timestamps) =>
        \A r \in 1 .. Len(last.tokens) :
           LET s == Sampled(last.tokens[r], options)
           IN /\ (C33_LastIsTimestamp(s) /\ C33_PenultimateIsText(s)) =>
                    /\ \A t \in Vocab : t < eot => last.logits[r][t] = NegInf
                    /\ PairingMask(s) = {t \in Vocab : t < eot}
              /\ (C33_LastIsTimestamp(s) /\ ~C33_PenultimateIsText(s)) =>
                    /\ \A t \in Vocab :
                          t >= timestamp_begin => last.logits[r][t] = NegInf
                    /\ PairingMask(s) = {t \in Vocab : t >= timestamp_begin}
              /\ ~C33_LastIsTimestamp(s) => PairingMask(s) = {}

C33_Witness ==
    /\ pc = "loop"
    /\ ~options.without_timestamps
    /\ \E r \in 1 .. Len(last.tokens) :
          LET s == Sampled(last.tokens[r], options)
          IN /\ Len(s) >= 3
             /\ C33_LastIsTimestamp(s)
             /\ C33_PenultimateIsText(s)
             /\ IsTimestamp(s[1])
             /\ \E t \in Vocab : t >= timestamp_begin /\ last.logits[r][t] # NegInf
\* C34: with timestamps enabled, at the first sampled position every
\* non-timestamp token is masked, and whenever max_initial_timestamp is not
\* None (0 included) every timestamp beyond timestamp_begin +
\* round(max_initial_timestamp / precision) is masked too, so the first
\* sampled token of every row is a timestamp within that bound
C34_FirstPositionMasked ==
    (pc \in {"loop", "after_loop"} /\ i = 1 /\ ~options.without_timestamps) =>
        \A r \in 1 .. Len(last.logits) :
           /\ \A t \in Vocab : t < timestamp_begin => last.logits[r][t] = NegInf
           /\ options.max_initial_timestamp # None =>
                 \A t \in Vocab :
                    t > timestamp_begin + RoundHalfEven(options.max_initial_timestamp)
                        => last.logits[r][t] = NegInf
           /\ \A q \in 1 .. Len(tokens) :
                 LET first == tokens[q][SampleBegin(options) + 1]
                 IN /\ IsTimestamp(first)
                    /\ options.max_initial_timestamp # None =>
                          first <= timestamp_begin
                                      + RoundHalfEven(options.max_initial_timestamp)
\* C35: for every audio of a run the scores given to the ranker are the
\* cumulative log-probabilities finalize returned, and avg_logprob is the
\* finalize score of the selected candidate over (number of result tokens
\* + 1); nothing between finalize and the ranking changes a score
C35_RankedScoresAreFinalized ==
    (pc = "done" /\ options.task # "lang_id") =>
        \A a \in 1 .. Len(final) :
           /\ \A k \in 1 .. Len(final[a]) : final[a][k].score = final[a][k].fscore
           /\ \E k \in 1 .. Len(final[a]) :
                 /\ result[a].tokens = final[a][k].seq
                 /\ result[a].logprob = final[a][k].fscore
                 /\ result[a].length = Len(final[a][k].seq) + 1
\* C36: every row BeamSearchDecoder.update keeps for the next step has a
\* finite cumulative score, and the token appended to it was not masked by
\* the filters of that step, whenever the step left a token unmasked
C36_KeptRowsUnmasked ==
    (DecoderKind(options) = "beam" /\ pc \in {"loop", "after_loop"} /\ i > 0
        /\ \A q \in 1 .. Len(last.logits) : Unmasked(last.logits[q]) # {}) =>
        \A r \in 1 .. Len(tokens) :
           /\ sum_logprobs[r] # NegInf
           /\ last.logits[last.source_indices[r]][Last(tokens[r])] # NegInf
\* C37: every candidate finalize returns, greedy or beam, however the loop
\* stopped, holds an end-of-text token at or after sample_begin, so the
\* slice of run is defined for it and no result token list holds end-of-text
C37_CandidatesHoldEot ==
    (pc \in {"done", "failed"} /\ Finalized) =>
        /\ exc # "IndexError"
        /\ \A a \in 1 .. Len(final) : \A k \in 1 .. Len(final[a]) :
              /\ FirstEot(final[a][k].full) > SampleBegin(options)
              /\ \A m \in 1 .. Len(final[a][k].seq) : final[a][k].seq[m] # eot
        /\ pc = "done" =>
              \A a \in 1 .. Len(result) :
                 \A m \in 1 .. Len(result[a].tokens) : result[a].tokens[m] # eot

C37_Witness ==
    /\ pc = "done"
    /\ Finalized
    /\ DecoderKind(options) = "greedy"
    /\ C21_TooLong
    /\ \E r \in 1 .. Len(tokens) : \A m \in 1 .. Len(tokens[r]) : tokens[r][m] # eot
\* C38: the ranking step of run yields an index for every audio and raises
\* nothing, for every candidate set finalize can produce, a candidate that is
\* empty after trimming included, with length_penalty unset and set
C38_RankNeverRaises ==
    (pc \in {"done", "failed"} /\ Finalized /\ calls.rank > 0) =>
        /\ exc = "none"
        /\ Len(result) = options.n_audio
\* C39: whenever BeamSearchDecoderWithLM.update completes without error it
\* returns the next-step rows, the source indices, the cumulative
\* log-probabilities, the finished-sequence sets and the completion flag that
\* BeamSearchDecoder.update returns on the same tokens, logits and prior state
C39_Reference ==
    BeamUpdate(tokens, ApplyFilters(logits, tokens, options), sum_logprobs,
               finished_sequences, options.beam_size,
               MaxCandidates(options.beam_size, options.patience2))

C39_LMUpdateStep ==
    (pc = "step" /\ DecoderKind(options) = "beamlm"
        /\ pc' \in {"loop", "after_loop"}) =>
        /\ tokens' = C39_Reference.tokens
        /\ last'.source_indices = C39_Reference.source_indices
        /\ sum_logprobs' = C39_Reference.sum_logprobs
        /\ finished_sequences' = C39_Reference.finished_sequences
        /\ last'.completed = C39_Reference.completed

C39_LMUpdateAsBeamUpdate == [][C39_LMUpdateStep]_vars

C39_Witness ==
    /\ DecoderKind(options) = "beamlm"
    /\ options.beam_size >= 2
    /\ pc \in {"loop", "after_loop"}
    /\ i >= 2
    /\ exc = "none"
    /\ \E r \in 1 .. Len(tokens) : last.source_indices[r] # r
    /\ \E a \in 1 .. Len(finished_sequences) : finished_sequences[a] # <<>>
====
